---- MODULE Spec2Model ----
(***************************************************************************)
(* The JSON import / export pipeline of packages/api/src/routers/          *)
(* json-import.ts (importCards, exportCards), as a state machine over the  *)
(* relational store it writes to.                                          *)
(***************************************************************************)
EXTENDS Integers, Sequences, FiniteSets, TLC

(***************************************************************************)
(* JavaScript strings: sequences of one-character strings.                 *)
(***************************************************************************)
Min(a, b) == IF a < b THEN a ELSE b

Rep(c, n) == [i \in 1..n |-> c]

UpperChars == <<"A","B","C","D","E","F","G","H","I","J","K","L","M",
                "N","O","P","Q","R","S","T","U","V","W","X","Y","Z">>

LowerChars == <<"a","b","c","d","e","f","g","h","i","j","k","l","m",
                "n","o","p","q","r","s","t","u","v","w","x","y","z">>

WhiteSpace == {" ", "\t", "\n", "\r"}

LowerChar(c) ==
    IF \E i \in 1..Len(UpperChars) : UpperChars[i] = c
    THEN LowerChars[CHOOSE i \in 1..Len(UpperChars) : UpperChars[i] = c]
    ELSE c

\* String.prototype.toLowerCase
toLowerCase(s) == [i \in 1..Len(s) |-> LowerChar(s[i])]

\* String.prototype.trim
trim(s) ==
    LET keep == {i \in 1..Len(s) : s[i] \notin WhiteSpace}
    IN  IF keep = {} THEN <<>>
        ELSE LET lo == CHOOSE i \in keep : \A j \in keep : i <= j
                 hi == CHOOSE i \in keep : \A j \in keep : j <= i
             IN  SubSeq(s, lo, hi)

\* String.prototype.substring(0, n)
substring(s, n) == SubSeq(s, 1, Min(n, Len(s)))

(***************************************************************************)
(* Values produced by JSON.parse, tagged with their JavaScript type.       *)
(* An object is a function from its own property names to values.          *)
(***************************************************************************)
JUndef   == [t |-> "undefined"]
JNull    == [t |-> "null"]
JNum(n)  == [t |-> "number", v |-> n]
JBool(b) == [t |-> "boolean", v |-> b]
JStr(s)  == [t |-> "string", v |-> s]
JArr(a)  == [t |-> "array", v |-> a]
JObj(f)  == [t |-> "object", v |-> f]

\* typeof x === 'object' (true of null, arrays and objects)
TypeofObject(x) == x.t \in {"null", "array", "object"}

IsString(x) == x.t = "string"

IsArray(x) == x.t = "array"

\* x != null
NotNullish(x) == x.t \notin {"null", "undefined"}

\* JavaScript truthiness, as in !x and x && y
Truthy(x) ==
    CASE x.t \in {"null", "undefined"} -> FALSE
      [] x.t = "boolean" -> x.v
      [] x.t = "number" -> x.v # 0
      [] x.t = "string" -> Len(x.v) > 0
      [] OTHER -> TRUE

\* property read x.k (undefined when x has no own property k)
Get(x, k) == IF x.t = "object" /\ k \in DOMAIN x.v THEN x.v[k] ELSE JUndef

\* k in x
HasKey(x, k) == x.t = "object" /\ k \in DOMAIN x.v

\* x ?? d
Coalesce(x, d) == IF NotNullish(x) THEN x ELSE d

(***************************************************************************)
(* Preprocessor: tolerant shape coercion before validation.  Each operator *)
(* yields [err |-> TRUE] where the code throws a BAD_REQUEST TRPCError,    *)
(* and [err |-> FALSE, val |-> the preprocessed value] otherwise.          *)
(***************************************************************************)
\* .filter(item => item != null && typeof item === 'object' && item.title
\*                 && typeof item.title === 'string')
ItemFilter(item) ==
    /\ NotNullish(item)
    /\ TypeofObject(item)
    /\ Truthy(Get(item, "title"))
    /\ IsString(Get(item, "title"))

\* .map(item => ({ title: item.title, completed: item.completed ?? false }))
ItemMap(item) ==
    JObj([title |-> Get(item, "title"),
          completed |-> Coalesce(Get(item, "completed"), JBool(FALSE))])

\* .filter(cl => cl != null && typeof cl === 'object' && cl.name
\*               && typeof cl.name === 'string')
ChecklistFilter(cl) ==
    /\ NotNullish(cl)
    /\ TypeofObject(cl)
    /\ Truthy(Get(cl, "name"))
    /\ IsString(Get(cl, "name"))

processedItems(checklist) ==
    IF IsArray(Get(checklist, "items"))
    THEN LET kept == SelectSeq(Get(checklist, "items").v, ItemFilter)
         IN  [i \in 1..Len(kept) |-> ItemMap(kept[i])]
    ELSE <<>>

ChecklistMap(checklist) ==
    JObj([name |-> Get(checklist, "name"),
          items |-> JArr(processedItems(checklist))])

processedChecklists(card) ==
    IF IsArray(Get(card, "checklists"))
    THEN LET kept == SelectSeq(Get(card, "checklists").v, ChecklistFilter)
         IN  [i \in 1..Len(kept) |-> ChecklistMap(kept[i])]
    ELSE <<>>

\* if (!card || typeof card !== 'object') throw
CardInvalid(card) == ~Truthy(card) \/ ~TypeofObject(card)

preprocessCard(card) ==
    JObj([title |-> Coalesce(Get(card, "title"), JStr(<<>>)),
          description |-> Coalesce(Get(card, "description"), JStr(<<>>)),
          labels |-> IF IsArray(Get(card, "labels"))
                     THEN JArr(SelectSeq(Get(card, "labels").v, NotNullish))
                     ELSE JArr(<<>>),
          checklists |-> JArr(processedChecklists(card))])

preprocessCards(cards) ==
    IF \E i \in 1..Len(cards) : CardInvalid(cards[i])
    THEN [err |-> TRUE]
    ELSE [err |-> FALSE,
          val |-> JArr([i \in 1..Len(cards) |-> preprocessCard(cards[i])])]

\* if (!list || typeof list !== 'object') throw
ListInvalid(list) == ~Truthy(list) \/ ~TypeofObject(list)

\* if (!list.listName || typeof list.listName !== 'string') throw
ListNameInvalid(list) ==
    ~Truthy(Get(list, "listName")) \/ ~IsString(Get(list, "listName"))

ListCardsOrEmpty(list) ==
    IF IsArray(Get(list, "cards")) THEN Get(list, "cards").v ELSE <<>>

\* the array branch: parsedData.map(list => ...)
PreprocessArrayEntry(list) ==
    IF ListInvalid(list) \/ ListNameInvalid(list) THEN [err |-> TRUE]
    ELSE LET cs == preprocessCards(ListCardsOrEmpty(list))
         IN  IF cs.err THEN [err |-> TRUE]
             ELSE [err |-> FALSE,
                   val |-> JObj([listName |-> JStr(trim(Get(list, "listName").v)),
                                 cards |-> cs.val])]

\* the single-list branch: { listName: data.listName, cards: preprocessCards(data.cards) }
PreprocessSingle(data) ==
    LET cs == preprocessCards(Get(data, "cards").v)
    IN  IF cs.err THEN [err |-> TRUE]
        ELSE [err |-> FALSE,
              val |-> JObj(IF HasKey(data, "listName")
                           THEN [listName |-> Get(data, "listName"), cards |-> cs.val]
                           ELSE [cards |-> cs.val])]

Preprocess(parsedData) ==
    IF IsArray(parsedData)
    THEN LET each == [i \in 1..Len(parsedData.v) |-> PreprocessArrayEntry(parsedData.v[i])]
         IN  IF \E i \in 1..Len(each) : each[i].err THEN [err |-> TRUE]
             ELSE [err |-> FALSE, val |-> JArr([i \in 1..Len(each) |-> each[i].val])]
    ELSE IF HasKey(parsedData, "cards") /\ IsArray(Get(parsedData, "cards"))
         THEN PreprocessSingle(parsedData)
         ELSE [err |-> FALSE, val |-> parsedData]

(***************************************************************************)
(* Schema Validator (zod).  XOk is safeParse(...).success, XData is the    *)
(* parsed value with defaults applied, defined where XOk holds.            *)
(***************************************************************************)
MaxItemTitleLen == 500
MaxChecklistNameLen == 255
MaxItemsPerChecklist == 50
MaxTitleLen == 255
MaxDescriptionLen == 10000
MaxLabelLen == 50
MaxLabelsPerCard == 20
MaxChecklistsPerCard == 10
MaxListNameLen == 255
MaxCardsPerList == 500
MaxListsPerImport == 50

\* z.object(...) accepts plain objects only
ZodObject(x) == x.t = "object"

\* z.string().min(lo).max(hi)
ZodString(x, lo, hi) == IsString(x) /\ lo <= Len(x.v) /\ Len(x.v) <= hi

ChecklistItemSchemaOk(x) ==
    /\ ZodObject(x)
    /\ ZodString(Get(x, "title"), 1, MaxItemTitleLen)
    /\ Get(x, "completed").t \in {"undefined", "boolean"}

ChecklistItemSchemaData(x) ==
    [title |-> Get(x, "title").v,
     completed |-> IF Get(x, "completed").t = "undefined" THEN FALSE
                   ELSE Get(x, "completed").v]

ChecklistSchemaOk(x) ==
    /\ ZodObject(x)
    /\ ZodString(Get(x, "name"), 1, MaxChecklistNameLen)
    /\ IsArray(Get(x, "items"))
    /\ Len(Get(x, "items").v) <= MaxItemsPerChecklist
    /\ \A i \in 1..Len(Get(x, "items").v) : ChecklistItemSchemaOk(Get(x, "items").v[i])

ChecklistSchemaData(x) ==
    [name |-> Get(x, "name").v,
     items |-> [i \in 1..Len(Get(x, "items").v) |->
                   ChecklistItemSchemaData(Get(x, "items").v[i])]]

CardSchemaOk(x) ==
    /\ ZodObject(x)
    /\ ZodString(Get(x, "title"), 1, MaxTitleLen)
    /\ \/ Get(x, "description").t = "undefined"
       \/ ZodString(Get(x, "description"), 0, MaxDescriptionLen)
    /\ \/ Get(x, "labels").t = "undefined"
       \/ /\ IsArray(Get(x, "labels"))
          /\ Len(Get(x, "labels").v) <= MaxLabelsPerCard
          /\ \A i \in 1..Len(Get(x, "labels").v) :
                ZodString(Get(x, "labels").v[i], 0, MaxLabelLen)
    /\ \/ Get(x, "checklists").t = "undefined"
       \/ /\ IsArray(Get(x, "checklists"))
          /\ Len(Get(x, "checklists").v) <= MaxChecklistsPerCard
          /\ \A i \in 1..Len(Get(x, "checklists").v) :
                ChecklistSchemaOk(Get(x, "checklists").v[i])

CardSchemaData(x) ==
    [title |-> Get(x, "title").v,
     description |-> IF Get(x, "description").t = "undefined" THEN <<>>
                     ELSE Get(x, "description").v,
     labels |-> IF Get(x, "labels").t = "undefined" THEN <<>>
                ELSE [i \in 1..Len(Get(x, "labels").v) |-> Get(x, "labels").v[i].v],
     checklists |-> IF Get(x, "checklists").t = "undefined" THEN <<>>
                    ELSE [i \in 1..Len(Get(x, "checklists").v) |->
                             ChecklistSchemaData(Get(x, "checklists").v[i])]]

ListSchemaOk(x) ==
    /\ ZodObject(x)
    /\ ZodString(Get(x, "listName"), 1, MaxListNameLen)
    /\ IsArray(Get(x, "cards"))
    /\ Len(Get(x, "cards").v) <= MaxCardsPerList
    /\ \A i \in 1..Len(Get(x, "cards").v) : CardSchemaOk(Get(x, "cards").v[i])

ListSchemaData(x) ==
    [listName |-> Get(x, "listName").v,
     cards |-> [i \in 1..Len(Get(x, "cards").v) |-> CardSchemaData(Get(x, "cards").v[i])]]

\* z.union([ListSchema, z.array(ListSchema).min(1).max(50)])
ImportJsonSchemaOk(x) ==
    \/ ListSchemaOk(x)
    \/ /\ IsArray(x)
       /\ 1 <= Len(x.v)
       /\ Len(x.v) <= MaxListsPerImport
       /\ \A i \in 1..Len(x.v) : ListSchemaOk(x.v[i])

\* Array.isArray(importData) ? importData : [importData]
listsToImport(x) ==
    IF IsArray(x) THEN [i \in 1..Len(x.v) |-> ListSchemaData(x.v[i])]
    ELSE <<ListSchemaData(x)>>

(***************************************************************************)
(* Sequence helpers.                                                       *)
(***************************************************************************)
RECURSIVE Concat(_)
Concat(seqs) == IF seqs = <<>> THEN <<>> ELSE Head(seqs) \o Concat(Tail(seqs))

\* the members of a finite set of integers in increasing order
SortedSeq(S) ==
    [k \in 1..Cardinality(S) |-> CHOOSE i \in S : Cardinality({j \in S : j < i}) = k - 1]

\* first occurrences, in order (insertion order of a JavaScript Set)
Dedupe(seq) ==
    LET first == SortedSeq({i \in 1..Len(seq) : \A j \in 1..(i - 1) : seq[j] # seq[i]})
    IN  [k \in 1..Len(first) |-> seq[first[k]]]

(***************************************************************************)
(* State.  The store is one sequence per table; a row's id is its          *)
(* position (bigserial).  call[p] is the local state of call p.            *)
(***************************************************************************)
VARIABLES imports, lists, labels, cards, activities, cardLabels, checklists,
          items, call

entities == <<lists, labels, cards, activities, cardLabels, checklists, items>>

store == <<imports, lists, labels, cards, activities, cardLabels, checklists, items>>

vars == <<imports, lists, labels, cards, activities, cardLabels, checklists,
          items, call>>

Procs == {1, 2}

\* the board named by input.boardPublicId, and some other board of the store
TargetBoard == "board"

OtherBoard == "other"

(***************************************************************************)
(* Reconciliation: pure parts of label and list resolution.                *)
(***************************************************************************)
\* every card.labels entry of the payload with a non-blank trimmed name,
\* trimmed, in first-occurrence order (the Set allLabelNames)
allLabelNames(ls) ==
    LET perList(l) == Concat([c \in 1..Len(l.cards) |-> l.cards[c].labels])
        all == Concat([i \in 1..Len(ls) |-> perList(ls[i])])
        nonBlank == SelectSeq(all, LAMBDA n : trim(n) # <<>>)
    IN  Dedupe([i \in 1..Len(nonBlank) |-> trim(nonBlank[i])])

\* existingLabels.forEach(label => labelMap.set(label.name.toLowerCase(), label.id))
LabelMapOf(existing) ==
    [n \in {toLowerCase(existing[i].name) : i \in 1..Len(existing)} |->
        LET hits == {i \in 1..Len(existing) : toLowerCase(existing[i].name) = n}
        IN  existing[CHOOSE i \in hits : \A j \in hits : j <= i].id]

\* every name of allLabelNames, whether or not labelMap has it
labelsToCreateAll(names, labelMap) == names

\* names of allLabelNames with no entry in labelMap
labelsToCreate(names, labelMap) ==
    SelectSeq(names, LAMBDA n : toLowerCase(n) \notin DOMAIN labelMap)

\* the palette `colours` of @kan/shared/constants, by its size
PaletteSize == 3

\* the colour taken by the offset in the batch alone
colourCodeByOffset(existingCount, index) == index % PaletteSize

\* colours[(existingLabels.length + index) % colours.length], index from 0
colourCode(existingCount, index) == (existingCount + index) % PaletteSize

\* labelsToCreate.forEach((name, i) => labelMap.set(name.toLowerCase(), newLabels[i].id))
LabelMapWith(labelMap, names, firstId) ==
    [n \in DOMAIN labelMap \cup {toLowerCase(names[i]) : i \in 1..Len(names)} |->
        LET hits == {i \in 1..Len(names) : toLowerCase(names[i]) = n}
        IN  IF hits = {} THEN labelMap[n]
            ELSE firstId + (CHOOSE i \in hits : \A j \in hits : j <= i) - 1]

\* find that finds nothing
FindListNever(existingLists, listName) == 0

\* find comparing the names as they are
FindListExact(existingLists, listName) ==
    LET hits == {i \in 1..Len(existingLists) : existingLists[i].name = listName}
    IN  IF hits = {} THEN 0 ELSE CHOOSE i \in hits : \A j \in hits : i <= j

\* existingLists.find(list => list.name.toLowerCase() === listName.toLowerCase())
\* as the position of the first match in existingLists, 0 when there is none
FindList(existingLists, listName) ==
    LET hits == {i \in 1..Len(existingLists) :
                    toLowerCase(existingLists[i].name) = toLowerCase(listName)}
    IN  IF hits = {} THEN 0 ELSE CHOOSE i \in hits : \A j \in hits : i <= j

\* if (!listData.listName.trim()) throw, inside the list loop
InLoopListNameInvalid(listName) == trim(listName) = <<>>

(***************************************************************************)
(* Bulk writer: pure parts.                                                *)
(***************************************************************************)
CardTitleLimit == 255
CardDescriptionLimit == 10000
ChecklistNameLimit == 255
ItemTitleLimit == 500

\* substring with the limit off by one
TruncateTitleShort(s) == substring(s, CardTitleLimit - 1)

\* title: card.title.substring(0, 255)
TruncateTitle(s) == substring(s, CardTitleLimit)

\* description: (card.description || "").substring(0, 10000)
TruncateDescription(s) == substring(s, CardDescriptionLimit)

\* name: checklistData.name.substring(0, 255)
TruncateChecklistName(s) == substring(s, ChecklistNameLimit)

\* title: itemData.title.substring(0, 500)
TruncateItemTitle(s) == substring(s, ItemTitleLimit)

\* warnings pushed by listData.cards.forEach before the bulk insert
TruncationWarnings(li, cs) ==
    Concat([c \in 1..Len(cs) |->
        (IF Len(cs[c].title) > CardTitleLimit
         THEN <<[kind |-> "title", li |-> li, ci |-> c, j |-> 0, k |-> 0]>> ELSE <<>>)
        \o
        (IF Len(cs[c].description) > CardDescriptionLimit
         THEN <<[kind |-> "description", li |-> li, ci |-> c, j |-> 0, k |-> 0]>>
         ELSE <<>>)])

\* the Set built without lower-casing its entries
uniqueLabelsCaseSensitive(cardLabelNames) ==
    Dedupe(SelectSeq(cardLabelNames, LAMBDA n : trim(n) # <<>>))

\* new Set(cardData.labels.filter(l => l.trim() !== "").map(l => l.toLowerCase()))
uniqueLabels(cardLabelNames) ==
    LET nonBlank == SelectSeq(cardLabelNames, LAMBDA n : trim(n) # <<>>)
    IN  Dedupe([i \in 1..Len(nonBlank) |-> toLowerCase(nonBlank[i])])

\* relations pushed for the card before the created one
CardRelationsOffByOne(cardId, cardLabelNames, labelMap) ==
    LET found == SelectSeq(uniqueLabels(cardLabelNames),
                           LAMBDA n : toLowerCase(n) \in DOMAIN labelMap)
    IN  [i \in 1..Len(found) |->
            [cardId |-> cardId - 1, labelId |-> labelMap[toLowerCase(found[i])]]]

\* the relations pushed for one created card
CardRelations(cardId, cardLabelNames, labelMap) ==
    LET found == SelectSeq(uniqueLabels(cardLabelNames),
                           LAMBDA n : toLowerCase(n) \in DOMAIN labelMap)
    IN  [i \in 1..Len(found) |->
            [cardId |-> cardId, labelId |-> labelMap[toLowerCase(found[i])]]]

\* if (uniqueLabels.size < cardData.labels.length) warnings.push(...)
DuplicateWarning(cardLabelNames) ==
    Len(cardLabelNames) > 0 /\ Len(uniqueLabels(cardLabelNames)) < Len(cardLabelNames)

cardLabelRelations(createdCards, cs, labelMap) ==
    Concat([c \in 1..Len(createdCards) |->
               CardRelations(createdCards[c], cs[c].labels, labelMap)])

DuplicateWarnings(li, cs) ==
    Concat([c \in 1..Len(cs) |->
        IF DuplicateWarning(cs[c].labels)
        THEN <<[kind |-> "duplicateLabels", li |-> li, ci |-> c, j |-> 0, k |-> 0]>>
        ELSE <<>>])

\* the checklist positions <<card, checklist>> of a list's cards that follow
\* <<ci, j>> in the order of the two nested loops
LaterChecklists(cs, ci, j) ==
    {pos \in UNION {{<<a, b>> : b \in 1..Len(cs[a].checklists)} : a \in 1..Len(cs)} :
        pos[1] > ci \/ (pos[1] = ci /\ pos[2] > j)}

FirstChecklist(S) ==
    CHOOSE pos \in S : \A q \in S : pos[1] < q[1] \/ (pos[1] = q[1] /\ pos[2] <= q[2])

(***************************************************************************)
(* Calls.  Fields of call[p] named as the locals of the handler; checks,   *)
(* raised, faults, snap and statusWrites are history of the call: the      *)
(* access checks passed, whether an exception reached the catch block,     *)
(* the store outcomes other than a normal result, the store when the call  *)
(* began, and the number of status updates of its ImportBatch.             *)
(***************************************************************************)
NewCall(op, data) ==
    [op |-> op, pc |-> "start", data |-> data, parsedData |-> JUndef,
     lists |-> <<>>, warnings |-> <<>>, newImportId |-> 0,
     existingLists |-> <<>>, existingLabelsLen |-> 0, labelMap |-> <<>>,
     toCreate |-> <<>>, li |-> 0, targetListId |-> 0, createdCards |-> <<>>,
     ci |-> 0, j |-> 0, k |-> 0, checklistId |-> 0, allCreatedCards |-> 0,
     exLists |-> <<>>, allCards |-> <<>>, exCardLabels |-> <<>>,
     exChecklists |-> <<>>, checklistItems |-> <<>>,
     result |-> [kind |-> "none"],
     checks |-> {}, raised |-> FALSE, faults |-> <<>>, snap |-> <<>>,
     statusWrites |-> 0]

\* an error that carries the warnings pushed so far
FailWithWarnings(c, code, stage) ==
    [c EXCEPT !.pc = "done",
              !.result = [kind |-> "error", code |-> code, stage |-> stage,
                          warnings |-> c.warnings]]

\* a TRPCError thrown to the caller at `stage`
Fail(c, code, stage) ==
    [c EXCEPT !.pc = "done",
              !.result = [kind |-> "error", code |-> code, stage |-> stage]]

\* the import record created first, before the payload is looked at
FollowsImportLedgerFirst(pc) ==
    CASE pc = "start" -> "createImport"
      [] pc = "createImport" -> "parse"
      [] pc = "parse" -> "preprocess"
      [] pc = "preprocess" -> "validate"
      [] pc = "validate" -> "findBoard"
      [] pc = "findBoard" -> "getWorkspace"
      [] pc = "getWorkspace" -> "assertMember"
      [] pc = "assertMember" -> "readLists"

\* the straight-line order of the steps before the try block
FollowsImport(pc) ==
    CASE pc = "start" -> "parse"
      [] pc = "parse" -> "preprocess"
      [] pc = "preprocess" -> "validate"
      [] pc = "validate" -> "findBoard"
      [] pc = "findBoard" -> "getWorkspace"
      [] pc = "getWorkspace" -> "assertMember"
      [] pc = "assertMember" -> "createImport"
      [] pc = "createImport" -> "readLists"

FollowsExport(pc) ==
    CASE pc = "start" -> "findBoard"
      [] pc = "findBoard" -> "getWorkspace"
      [] pc = "getWorkspace" -> "assertMember"
      [] pc = "assertMember" -> "exportLists"

Follows(op, pc) == IF op = "import" THEN FollowsImport(pc) ELSE FollowsExport(pc)

\* calls are issued one after another unless the specification lets them overlap
MayStart(p, overlap) == overlap \/ \A q \in Procs : q < p => call[q].pc = "done"

\* a failed access check throws `code`
OnDeniedProceed(c, code, pc) == [c EXCEPT !.pc = Follows(c.op, pc)]

OnDenied(c, code, pc) == Fail(c, code, pc)

\* an access check: passes and goes on, or throws `code`
AccessCheck(p, pc, check, code) ==
    /\ call[p].pc = pc
    /\ LET c == call[p]
       IN  \E passes \in BOOLEAN :
              call' = [call EXCEPT ![p] =
                          IF passes
                          THEN [c EXCEPT !.pc = Follows(c.op, pc),
                                         !.checks = c.checks \cup {check}]
                          ELSE OnDenied(c, code, pc)]
    /\ UNCHANGED store

\* const userId = ctx.user?.id; if (!userId) throw UNAUTHORIZED
Authenticate(p, overlap) ==
    /\ MayStart(p, overlap)
    /\ call[p].pc = "start"
    /\ LET c == [call[p] EXCEPT !.snap = store]
       IN  \E passes \in BOOLEAN :
              call' = [call EXCEPT ![p] =
                          IF passes
                          THEN [c EXCEPT !.pc = Follows(c.op, "start"),
                                         !.checks = c.checks \cup {"auth"}]
                          ELSE OnDenied(c, "UNAUTHORIZED", "start")]
    /\ UNCHANGED store

\* ctx.db.query.boards.findFirst(...); if (!board) throw NOT_FOUND
FindBoard(p) == AccessCheck(p, "findBoard", "board", "NOT_FOUND")

\* workspaceRepo.getById(...); if (!workspace) throw NOT_FOUND
GetWorkspace(p) == AccessCheck(p, "getWorkspace", "workspace", "NOT_FOUND")

\* await assertUserInWorkspace(ctx.db, userId, workspace.id)
AssertUserInWorkspace(p) == AccessCheck(p, "assertMember", "member", "FORBIDDEN")

\* parsedData = JSON.parse(input.data), BAD_REQUEST when it throws
ParseJson(p) ==
    /\ call[p].pc = "parse"
    /\ LET c == call[p]
       IN  call' = [call EXCEPT ![p] =
                      IF c.data.ok
                      THEN [c EXCEPT !.pc = Follows(c.op, "parse"),
                                     !.parsedData = c.data.value]
                      ELSE Fail(c, "BAD_REQUEST", "parse")]
    /\ UNCHANGED store

\* the preprocessing try block, BAD_REQUEST when it throws
PreprocessStep(p) ==
    /\ call[p].pc = "preprocess"
    /\ LET c == call[p]
           r == Preprocess(c.parsedData)
       IN  call' = [call EXCEPT ![p] =
                      IF r.err THEN Fail(c, "BAD_REQUEST", "preprocess")
                      ELSE [c EXCEPT !.pc = Follows(c.op, "preprocess"),
                                     !.parsedData = r.val]]
    /\ UNCHANGED store

\* ImportJsonSchema.safeParse(parsedData), then listsToImport
Validate(p) ==
    /\ call[p].pc = "validate"
    /\ LET c == call[p]
       IN  call' = [call EXCEPT ![p] =
                      IF ImportJsonSchemaOk(c.parsedData)
                      THEN [c EXCEPT !.pc = Follows(c.op, "validate"),
                                     !.lists = listsToImport(c.parsedData)]
                      ELSE Fail(c, "BAD_REQUEST", "validate")]
    /\ UNCHANGED store

\* importRepo.create(...); if (!newImportId) throw INTERNAL_SERVER_ERROR
CreateImport(p) ==
    /\ call[p].pc = "createImport"
    /\ \E outcome \in {"ok", "null", "raise"} :
          IF outcome = "ok"
          THEN /\ imports' = Append(imports, [status |-> "pending", source |-> "json"])
               /\ call' = [call EXCEPT ![p].pc = Follows(call[p].op, "createImport"),
                                       ![p].newImportId = Len(imports) + 1]
          ELSE /\ call' = [call EXCEPT ![p] =
                             Fail([call[p] EXCEPT !.faults =
                                      Append(@, [kind |-> outcome, at |-> "createImport",
                                                 li |-> 0, ci |-> 0, j |-> 0, k |-> 0])],
                                  "INTERNAL_SERVER_ERROR", "createImport")]
               /\ UNCHANGED imports
    /\ UNCHANGED entities

(***************************************************************************)
(* The try block of importCards.                                           *)
(***************************************************************************)
Fault(c, kind, at) ==
    [kind |-> kind, at |-> at, li |-> c.li, ci |-> c.ci, j |-> c.j, k |-> c.k]

\* where control goes when a statement of the try block throws
OnThrow == "catch"

\* the exception escapes: the statement is not covered by the try block
RaiseUncaught(c, kind, at) ==
    Fail([c EXCEPT !.raised = TRUE, !.faults = Append(@, Fault(c, kind, at))],
         "INTERNAL_SERVER_ERROR", at)

\* the exception is logged and the loop goes on with the next list
RaiseSkipsList(c, kind, at) ==
    [c EXCEPT !.pc = "listLoop", !.li = @ + 1, !.targetListId = 0,
              !.createdCards = <<>>, !.ci = 0, !.j = 0, !.k = 0, !.checklistId = 0,
              !.raised = TRUE, !.faults = Append(@, Fault(c, kind, at))]

\* an exception thrown inside the try block
Raise(c, kind, at) ==
    [c EXCEPT !.pc = OnThrow, !.raised = TRUE, !.faults = Append(@, Fault(c, kind, at))]

\* the cards of the payload list being processed
listCards(c) == c.lists[c.li].cards

\* the end of one iteration of the list loop
NextList(c) ==
    [c EXCEPT !.pc = "listLoop", !.li = @ + 1, !.targetListId = 0,
              !.createdCards = <<>>, !.ci = 0, !.j = 0, !.k = 0, !.checklistId = 0]

\* the next checklist of the list after <<ci, j>>, or the next list
AfterChecklist(c, ci, j) ==
    LET later == LaterChecklists(listCards(c), ci, j)
    IN  IF later = {} THEN NextList(c)
        ELSE [c EXCEPT !.pc = "createChecklist", !.ci = FirstChecklist(later)[1],
                       !.j = FirstChecklist(later)[2], !.k = 0, !.checklistId = 0]

\* the next item of the checklist, or the next checklist
AfterItem(c) ==
    IF c.k < Len(listCards(c)[c.ci].checklists[c.j].items)
    THEN [c EXCEPT !.k = @ + 1]
    ELSE AfterChecklist(c, c.ci, c.j)

\* ctx.db.query.lists.findMany(...) of the board, not deleted
ReadExistingLists(p) ==
    /\ call[p].pc = "readLists"
    /\ LET c == call[p]
           ids == SortedSeq({i \in 1..Len(lists) : lists[i].boardId = TargetBoard /\ ~lists[i].deleted})
       IN  \E outcome \in {"ok", "raise"} :
              call' = [call EXCEPT ![p] =
                 IF outcome = "ok"
                 THEN [c EXCEPT !.pc = "readLabels",
                                !.existingLists =
                                    [i \in 1..Len(ids) |->
                                        [id |-> ids[i], name |-> lists[ids[i]].name]]]
                 ELSE Raise(c, outcome, "readLists")]
    /\ UNCHANGED store

\* ctx.db.query.labels.findMany(...), allLabelNames, labelMap, labelsToCreate
ReadExistingLabels(p) ==
    /\ call[p].pc = "readLabels"
    /\ LET c == call[p]
           ids == SortedSeq({i \in 1..Len(labels) : labels[i].boardId = TargetBoard /\ ~labels[i].deleted})
           existing == [i \in 1..Len(ids) |->
                           [id |-> ids[i], name |-> labels[ids[i]].name]]
           map == LabelMapOf(existing)
           create == labelsToCreate(allLabelNames(c.lists), map)
       IN  \E outcome \in {"ok", "raise"} :
              call' = [call EXCEPT ![p] =
                 IF outcome = "ok"
                 THEN [c EXCEPT !.pc = IF create # <<>> THEN "createLabels"
                                       ELSE "listLoop",
                                !.li = IF create # <<>> THEN 0 ELSE 1,
                                !.existingLabelsLen = Len(existing),
                                !.labelMap = map,
                                !.toCreate = create]
                 ELSE Raise(c, outcome, "readLabels")]
    /\ UNCHANGED store

\* labelRepo.bulkCreate(...) and the labelMap entries of the new labels
CreateLabels(p) ==
    /\ call[p].pc = "createLabels"
    /\ \E outcome \in {"ok", "raise"} :
          IF outcome = "ok"
          THEN LET c == call[p]
                   new == [i \in 1..Len(c.toCreate) |->
                              [name |-> c.toCreate[i],
                               colourCode |-> colourCode(c.existingLabelsLen, i - 1),
                               boardId |-> TargetBoard, importId |-> c.newImportId,
                               deleted |-> FALSE]]
               IN  /\ labels' = labels \o new
                   /\ call' = [call EXCEPT ![p].pc = "listLoop", ![p].li = 1,
                                  ![p].labelMap =
                                      LabelMapWith(c.labelMap, c.toCreate, Len(labels) + 1)]
          ELSE /\ call' = [call EXCEPT ![p] = Raise(call[p], outcome, "createLabels")]
               /\ UNCHANGED labels
    /\ UNCHANGED <<imports, lists, cards, activities, cardLabels, checklists, items>>

\* no list is skipped
SkipListNever(cs) == FALSE

\* if (listData.cards.length === 0) continue
SkipList(cs) == Len(cs) = 0

\* the head of `for (const listData of listsToImport)`: the listName check,
\* the skip of a list without cards, and existingLists.find
ListLoop(p) ==
    /\ call[p].pc = "listLoop"
    /\ LET c == call[p]
       IN  call' = [call EXCEPT ![p] =
              IF c.li > Len(c.lists) THEN [c EXCEPT !.pc = "markSuccess"]
              ELSE IF InLoopListNameInvalid(c.lists[c.li].listName)
                   THEN Raise(c, "throw", "listLoop")
              ELSE IF SkipList(listCards(c)) THEN NextList(c)
              ELSE LET hit == FindList(c.existingLists, c.lists[c.li].listName)
                   IN  IF hit = 0 THEN [c EXCEPT !.pc = "createList"]
                       ELSE [c EXCEPT !.pc = "createCards",
                                      !.targetListId = c.existingLists[hit].id]]
    /\ UNCHANGED store

\* listRepo.create(...); if (!newList?.id) throw; existingLists.push(targetList)
CreateList(p) ==
    /\ call[p].pc = "createList"
    /\ \E outcome \in {"ok", "null", "raise"} :
          IF outcome = "ok"
          THEN LET c == call[p]
                   name == c.lists[c.li].listName
               IN  /\ lists' = Append(lists, [name |-> name, boardId |-> TargetBoard,
                                              importId |-> c.newImportId,
                                              deleted |-> FALSE])
                   /\ call' = [call EXCEPT ![p].pc = "createCards",
                                  ![p].targetListId = Len(lists) + 1,
                                  ![p].existingLists =
                                      Append(@, [id |-> Len(lists) + 1, name |-> name])]
          ELSE /\ call' = [call EXCEPT ![p] = Raise(call[p], outcome, "createList")]
               /\ UNCHANGED lists
    /\ UNCHANGED <<imports, labels, cards, activities, cardLabels, checklists, items>>

\* cards numbered after the cards the target list already has
cardsToInsertAppended(c, cs) ==
    LET present == Cardinality({x \in 1..Len(cards) : cards[x].listId = c.targetListId})
    IN  [i \in 1..Len(cs) |->
            [title |-> TruncateTitle(cs[i].title),
             description |-> TruncateDescription(cs[i].description),
             listId |-> c.targetListId, index |-> present + i - 1,
             importId |-> c.newImportId, deleted |-> FALSE]]

\* listData.cards.map((card, index) => ({ title, description, listId, index, importId }))
cardsToInsert(c, cs) ==
    [i \in 1..Len(cs) |->
        [title |-> TruncateTitle(cs[i].title),
         description |-> TruncateDescription(cs[i].description),
         listId |-> c.targetListId, index |-> i - 1,
         importId |-> c.newImportId, deleted |-> FALSE]]

\* cardsToInsert, the truncation warnings, cardRepo.bulkCreate(...);
\* if (createdCards.length === 0) throw
CreateCards(p) ==
    /\ call[p].pc = "createCards"
    /\ \E outcome \in {"ok", "empty", "raise"} :
          LET c == call[p]
              cs == listCards(c)
              warned == [c EXCEPT !.warnings = @ \o TruncationWarnings(c.li, cs)]
              new == cardsToInsert(c, cs)
          IN  IF outcome = "ok"
              THEN /\ cards' = cards \o new
                   /\ call' = [call EXCEPT ![p] =
                                  [warned EXCEPT !.pc = "createActivities",
                                      !.createdCards =
                                          [i \in 1..Len(cs) |-> Len(cards) + i],
                                      !.allCreatedCards = @ + Len(cs)]]
              ELSE /\ call' = [call EXCEPT ![p] = Raise(warned, outcome, "createCards")]
                   /\ UNCHANGED cards
    /\ UNCHANGED <<imports, lists, labels, activities, cardLabels, checklists, items>>

\* cardActivityRepo.bulkCreate(ctx.db, activities)
CreateActivities(p) ==
    /\ call[p].pc = "createActivities"
    /\ \E outcome \in {"ok", "raise"} :
          IF outcome = "ok"
          THEN /\ activities' = activities \o
                     [i \in 1..Len(call[p].createdCards) |->
                         [type |-> "card.created", cardId |-> call[p].createdCards[i]]]
               /\ call' = [call EXCEPT ![p].pc = "createCardLabels"]
          ELSE /\ call' = [call EXCEPT ![p] = Raise(call[p], outcome, "createActivities")]
               /\ UNCHANGED activities
    /\ UNCHANGED <<imports, lists, labels, cards, cardLabels, checklists, items>>

\* cardLabelRelations and the duplicate warnings, then
\* cardRepo.bulkCreateCardLabelRelationship(...) when there is a relation
CreateCardLabels(p) ==
    /\ call[p].pc = "createCardLabels"
    /\ LET c == call[p]
           cs == listCards(c)
           rels == cardLabelRelations(c.createdCards, cs, c.labelMap)
           warned == [c EXCEPT !.warnings = @ \o DuplicateWarnings(c.li, cs)]
       IN  \E outcome \in IF rels = <<>> THEN {"ok"} ELSE {"ok", "raise"} :
              IF outcome = "ok"
              THEN /\ cardLabels' = cardLabels \o rels
                   /\ call' = [call EXCEPT ![p] = AfterChecklist(warned, 0, 0)]
              ELSE /\ call' = [call EXCEPT ![p] =
                                  Raise(warned, outcome, "createCardLabels")]
                   /\ UNCHANGED cardLabels
    /\ UNCHANGED <<imports, lists, labels, cards, activities, checklists, items>>

\* a missing checklist treated like a missing list: throw
OnMissingChecklistThrow(c) == Raise(c, "null", "createChecklist")

\* if (!checklist?.id) { console.error(...); continue; }
OnMissingChecklist(c) ==
    AfterChecklist([c EXCEPT !.faults = Append(@, Fault(c, "null", "createChecklist"))],
                   c.ci, c.j)

\* checklistRepo.create(...), the check of its result, the name warning
CreateChecklist(p) ==
    /\ call[p].pc = "createChecklist"
    /\ \E outcome \in {"ok", "null", "raise"} :
          LET c == call[p]
              data == listCards(c)[c.ci].checklists[c.j]
              warned == IF Len(data.name) > ChecklistNameLimit
                        THEN [c EXCEPT !.warnings =
                                 Append(@, [kind |-> "checklistName", li |-> c.li,
                                            ci |-> c.ci, j |-> c.j, k |-> 0])]
                        ELSE c
          IN  CASE outcome = "ok" ->
                     /\ checklists' = Append(checklists,
                            [name |-> TruncateChecklistName(data.name),
                             cardId |-> c.createdCards[c.ci], deleted |-> FALSE])
                     /\ call' = [call EXCEPT ![p] =
                                   IF Len(data.items) > 0
                                   THEN [warned EXCEPT !.pc = "createItem", !.k = 1,
                                            !.checklistId = Len(checklists) + 1]
                                   ELSE AfterChecklist(warned, c.ci, c.j)]
                [] outcome = "null" ->
                     /\ call' = [call EXCEPT ![p] = OnMissingChecklist(c)]
                     /\ UNCHANGED checklists
                [] outcome = "raise" ->
                     /\ call' = [call EXCEPT ![p] = Raise(c, outcome, "createChecklist")]
                     /\ UNCHANGED checklists
    /\ UNCHANGED <<imports, lists, labels, cards, activities, cardLabels, items>>

\* checklistRepo.createItem(...) with title and checklistId only; a missing
\* result is logged; the title warning
CreateItem(p) ==
    /\ call[p].pc = "createItem"
    /\ \E outcome \in {"ok", "null", "raise"} :
          LET c == call[p]
              data == listCards(c)[c.ci].checklists[c.j].items[c.k]
              warned == IF Len(data.title) > ItemTitleLimit
                        THEN [c EXCEPT !.warnings =
                                 Append(@, [kind |-> "itemTitle", li |-> c.li,
                                            ci |-> c.ci, j |-> c.j, k |-> c.k])]
                        ELSE c
          IN  CASE outcome = "ok" ->
                     /\ items' = Append(items,
                            [title |-> TruncateItemTitle(data.title),
                             checklistId |-> c.checklistId, completed |-> FALSE,
                             deleted |-> FALSE])
                     /\ call' = [call EXCEPT ![p] = AfterItem(warned)]
                [] outcome = "null" ->
                     /\ call' = [call EXCEPT ![p] =
                                   AfterItem([warned EXCEPT !.faults =
                                       Append(@, Fault(c, "null", "createItem"))])]
                     /\ UNCHANGED items
                [] outcome = "raise" ->
                     /\ call' = [call EXCEPT ![p] = Raise(c, outcome, "createItem")]
                     /\ UNCHANGED items
    /\ UNCHANGED <<imports, lists, labels, cards, activities, cardLabels, checklists>>

\* the statement after the success update throws inside the try block
AfterMarkSuccessThrows == "catch"

\* return { cardsCreated, listsProcessed, warnings }: the call is over
AfterMarkSuccess == "done"

\* importRepo.update(ctx.db, { status: "success" }, ...) and the return value
MarkSuccess(p) ==
    /\ call[p].pc = "markSuccess"
    /\ \E outcome \in {"ok", "raise"} :
          IF outcome = "ok"
          THEN /\ imports' = [imports EXCEPT ![call[p].newImportId].status = "success"]
               /\ call' = [call EXCEPT ![p].pc = AfterMarkSuccess,
                              ![p].statusWrites = @ + 1,
                              ![p].result =
                                  [kind |-> "ok",
                                   cardsCreated |-> call[p].allCreatedCards,
                                   listsProcessed |-> Len(call[p].lists),
                                   warnings |-> call[p].warnings]]
          ELSE /\ call' = [call EXCEPT ![p] = Raise(call[p], outcome, "markSuccess")]
               /\ UNCHANGED imports
    /\ UNCHANGED entities

\* a catch block that undoes the import: the cards of the batch are
\* soft-deleted before the batch is marked failed
MarkFailedWithRollback(p) ==
    /\ call[p].pc = "catch"
    /\ imports' = [imports EXCEPT ![call[p].newImportId].status = "failed"]
    /\ cards' = [i \in 1..Len(cards) |->
                    IF cards[i].importId = call[p].newImportId
                    THEN [cards[i] EXCEPT !.deleted = TRUE] ELSE cards[i]]
    /\ call' = [call EXCEPT ![p] =
                   Fail([call[p] EXCEPT !.statusWrites = @ + 1],
                        "INTERNAL_SERVER_ERROR", "catch")]
    /\ UNCHANGED <<lists, labels, activities, cardLabels, checklists, items>>

\* a catch block whose update has no where clause: every import record is
\* marked failed
MarkFailedEveryImport(p) ==
    /\ call[p].pc = "catch"
    /\ imports' = [i \in 1..Len(imports) |-> [imports[i] EXCEPT !.status = "failed"]]
    /\ call' = [call EXCEPT ![p] =
                   Fail([call[p] EXCEPT !.statusWrites = @ + 1],
                        "INTERNAL_SERVER_ERROR", "catch")]
    /\ UNCHANGED entities

\* the catch block: importRepo.update(ctx.db, { status: "failed" }, ...), then
\* the error is thrown again as INTERNAL_SERVER_ERROR
MarkFailed(p) ==
    /\ call[p].pc = "catch"
    /\ \E outcome \in {"ok", "raise"} :
          IF outcome = "ok"
          THEN /\ imports' = [imports EXCEPT ![call[p].newImportId].status = "failed"]
               /\ call' = [call EXCEPT ![p] =
                              Fail([call[p] EXCEPT !.statusWrites = @ + 1],
                                   "INTERNAL_SERVER_ERROR", "catch")]
          ELSE /\ call' = [call EXCEPT ![p] =
                              Fail([call[p] EXCEPT !.faults =
                                       Append(@, Fault(call[p], outcome, "catch"))],
                                   "INTERNAL_SERVER_ERROR", "catch")]
               /\ UNCHANGED imports
    /\ UNCHANGED entities

(***************************************************************************)
(* exportCards: five queries, each its own await, then the assembly of     *)
(* exportData from what they returned.  Rows come back ordered by index;   *)
(* the index of a list, a checklist and an item is assigned by its         *)
(* repository in creation order, so those rows come back in id order.      *)
(***************************************************************************)
\* a query of exportCards: `rows` on a result, the call fails when it raises
ExportQuery(p, pc, next, field, rows, asked) ==
    /\ call[p].pc = pc
    /\ \E outcome \in IF asked THEN {"ok", "raise"} ELSE {"ok"} :
          call' = [call EXCEPT ![p] =
                      IF outcome = "ok"
                      THEN [call[p] EXCEPT !.pc = next, ![field] = rows]
                      ELSE Fail([call[p] EXCEPT !.faults =
                                    Append(@, Fault(call[p], outcome, pc))],
                                "INTERNAL_SERVER_ERROR", pc)]
    /\ UNCHANGED store

\* a filter that lets deleted rows through
isNullDeletedAtAny(row) == TRUE

\* isNull(deletedAt) in the where clauses of the export queries
isNullDeletedAt(row) == ~row.deleted

\* ctx.db.query.lists.findMany: the non-deleted lists of the board
ExportLists(p) ==
    LET ids == SortedSeq({i \in 1..Len(lists) :
                             lists[i].boardId = TargetBoard /\ isNullDeletedAt(lists[i])})
    IN  ExportQuery(p, "exportLists", "exportCards", "exLists",
                    [n \in 1..Len(ids) |-> [id |-> ids[n], name |-> lists[ids[n]].name]],
                    TRUE)

\* ctx.db.query.cards.findMany: the non-deleted cards of those lists, by
\* index (cards of equal index in id order)
ExportCards(p) ==
    LET S == {i \in 1..Len(cards) :
                 /\ \E n \in 1..Len(call[p].exLists) : call[p].exLists[n].id = cards[i].listId
                 /\ isNullDeletedAt(cards[i])}
        before(a, b) == cards[a].index < cards[b].index
                        \/ (cards[a].index = cards[b].index /\ a < b)
        ids == [n \in 1..Cardinality(S) |->
                   CHOOSE i \in S : Cardinality({x \in S : before(x, i)}) = n - 1]
    IN  ExportQuery(p, "exportCards", "exportCardLabels", "allCards",
                    [n \in 1..Len(ids) |->
                        [id |-> ids[n], title |-> cards[ids[n]].title,
                         description |-> cards[ids[n]].description,
                         listId |-> cards[ids[n]].listId]],
                    TRUE)

\* the ids of the cards the export fetched
exportCardIds(c) == {c.allCards[n].id : n \in 1..Len(c.allCards)}

\* cardIds.length > 0 ? ctx.db.query.cardsToLabels.findMany(with label) : []
ExportCardLabels(p) ==
    LET ids == SortedSeq({i \in 1..Len(cardLabels) :
                             cardLabels[i].cardId \in exportCardIds(call[p])})
    IN  ExportQuery(p, "exportCardLabels", "exportChecklists", "exCardLabels",
                    [n \in 1..Len(ids) |->
                        [cardId |-> cardLabels[ids[n]].cardId,
                         name |-> labels[cardLabels[ids[n]].labelId].name]],
                    exportCardIds(call[p]) # {})

\* cardIds.length > 0 ? ctx.db.query.checklists.findMany(not deleted) : []
ExportChecklists(p) ==
    LET ids == SortedSeq({i \in 1..Len(checklists) :
                             /\ checklists[i].cardId \in exportCardIds(call[p])
                             /\ isNullDeletedAt(checklists[i])})
    IN  ExportQuery(p, "exportChecklists", "exportItems", "exChecklists",
                    [n \in 1..Len(ids) |->
                        [id |-> ids[n], cardId |-> checklists[ids[n]].cardId,
                         name |-> checklists[ids[n]].name]],
                    exportCardIds(call[p]) # {})

\* the rows of seq, in order, that satisfy the test at their position
Filter(seq, keep) == [n \in 1..Len(SortedSeq(keep)) |-> seq[SortedSeq(keep)[n]]]

exportItems(c, checklistId) ==
    LET rows == Filter(c.checklistItems,
                       {n \in 1..Len(c.checklistItems) :
                           c.checklistItems[n].checklistId = checklistId})
    IN  [n \in 1..Len(rows) |-> [title |-> rows[n].title, completed |-> rows[n].completed]]

exportChecklists(c, cardId) ==
    LET rows == Filter(c.exChecklists,
                       {n \in 1..Len(c.exChecklists) : c.exChecklists[n].cardId = cardId})
    IN  [n \in 1..Len(rows) |->
            [name |-> rows[n].name, items |-> exportItems(c, rows[n].id)]]

exportLabels(c, cardId) ==
    LET rows == Filter(c.exCardLabels,
                       {n \in 1..Len(c.exCardLabels) : c.exCardLabels[n].cardId = cardId})
    IN  [n \in 1..Len(rows) |-> rows[n].name]

exportCard(c, card) ==
    [title |-> card.title, description |-> card.description,
     labels |-> exportLabels(c, card.id), checklists |-> exportChecklists(c, card.id)]

\* lists.map(list => ({ listName, cards: listCards.map(...) }))
exportData(c) ==
    [n \in 1..Len(c.exLists) |->
        LET ofList == Filter(c.allCards,
                             {m \in 1..Len(c.allCards) :
                                 c.allCards[m].listId = c.exLists[n].id})
        IN  [listName |-> c.exLists[n].name,
             cards |-> [m \in 1..Len(ofList) |-> exportCard(c, ofList[m])]]]

\* checklistIds.length > 0 ? ctx.db.query.checklistItems.findMany(not deleted)
\* : [], then exportData and JSON.stringify
ExportItems(p) ==
    /\ call[p].pc = "exportItems"
    /\ LET c == call[p]
           clIds == {c.exChecklists[n].id : n \in 1..Len(c.exChecklists)}
           ids == SortedSeq({i \in 1..Len(items) :
                                items[i].checklistId \in clIds /\ isNullDeletedAt(items[i])})
           rows == [n \in 1..Len(ids) |->
                       [checklistId |-> items[ids[n]].checklistId,
                        title |-> items[ids[n]].title,
                        completed |-> items[ids[n]].completed]]
           got == [c EXCEPT !.checklistItems = rows]
       IN  \E outcome \in IF clIds # {} THEN {"ok", "raise"} ELSE {"ok"} :
              call' = [call EXCEPT ![p] =
                 IF outcome = "ok"
                 THEN [got EXCEPT !.pc = "done",
                                  !.result = [kind |-> "ok", data |-> exportData(got)]]
                 ELSE Fail([c EXCEPT !.faults = Append(@, Fault(c, outcome, "exportItems"))],
                           "INTERNAL_SERVER_ERROR", "exportItems")]
    /\ UNCHANGED store

(***************************************************************************)
(* Payloads and boards the calls are run on.                               *)
(***************************************************************************)
sToDo == <<"T", "o", " ", "D", "o">>
sToDoLower == <<"t", "o", " ", "d", "o">>
sToDoPadded == <<" ", "T", "o", " ", "D", "o", " ">>
sDonePadded == <<" ", "D", "o", "n", "e", " ">>
sDone == <<"D", "o", "n", "e">>
sLater == <<"L", "a", "t", "e", "r">>
sBlank == <<" ", " ">>
sBug == <<"b", "u", "g">>
sBugCap == <<"B", "u", "g">>
sBugUpper == <<"B", "U", "G">>
sBugPadded == <<" ", "b", "u", "g">>
sFeat == <<"f", "e", "a", "t">>

Title(c) == JStr(<<c>>)

rawItem(c, done) == JObj([title |-> Title(c), completed |-> JBool(done)])

cardFull ==
    JObj([title |-> Title("a"), description |-> Title("d"),
          labels |-> JArr(<<JStr(sBug), JStr(sBugCap)>>),
          checklists |-> JArr(<<JObj([name |-> Title("c"),
                                      items |-> JArr(<<rawItem("i", TRUE)>>)])>>)])

cardMin == JObj([title |-> Title("b")])

cardEmptyNames ==
    JObj([title |-> Title("e"),
          checklists |-> JArr(<<JObj([name |-> JStr(<<>>), items |-> JArr(<<>>)]),
                                JObj([name |-> Title("z"),
                                      items |-> JArr(<<JObj([title |-> JStr(<<>>)]),
                                                       JObj([title |-> Title("v")])>>)])>>)])

cardBlankLabel ==
    JObj([title |-> Title("w"), labels |-> JArr(<<JStr(sFeat), JStr(sBlank)>>)])

cardDone ==
    JObj([title |-> Title("t"),
          checklists |-> JArr(<<JObj([name |-> Title("c"),
                                      items |-> JArr(<<rawItem("i", TRUE),
                                                       rawItem("n", FALSE)>>)])>>)])

cardMixed ==
    JObj([title |-> Title("m"), description |-> JNull,
          labels |-> JArr(<<JStr(sFeat), JNull, JStr(sBugPadded)>>),
          checklists |-> JArr(<<JObj([name |-> Title("x"),
                                      items |-> JArr(<<JObj([title |-> Title("p")]),
                                                       JNull,
                                                       JObj([title |-> JNum(7)])>>)]),
                                JObj([name |-> JNum(5)]),
                                JNull,
                                JObj([name |-> Title("y")])>>)])

cardNoTitle == JObj([description |-> Title("d")])

cardBadLabel == JObj([title |-> Title("b"), labels |-> JArr(<<JNum(1)>>)])

cardBadCompleted ==
    JObj([title |-> Title("b"),
          checklists |-> JArr(<<JObj([name |-> Title("c"),
                                      items |-> JArr(<<JObj([title |-> Title("i"),
                                                             completed |-> Title("y")])>>)])>>)])

\* a card whose four bounded strings have the given lengths
cardOfLengths(t, d, n, i) ==
    JObj([title |-> JStr(Rep("t", t)), description |-> JStr(Rep("d", d)),
          checklists |-> JArr(<<JObj([name |-> JStr(Rep("n", n)),
                                      items |-> JArr(<<JObj([title |-> JStr(Rep("i", i))])>>)])>>)])

cardManyLabels == JObj([title |-> Title("b"),
                        labels |-> JArr(Rep(JStr(sBug), MaxLabelsPerCard + 1))])

cardLongLabel == JObj([title |-> Title("b"),
                       labels |-> JArr(<<JStr(Rep("l", MaxLabelLen + 1))>>)])

rawList(name, cs) == JObj([listName |-> name, cards |-> JArr(cs)])

\* the entries that array payloads are built from
ListPool ==
    << rawList(JStr(sToDo), <<cardFull>>),
       rawList(JStr(sDonePadded), <<cardMin, cardMixed>>),
       rawList(JStr(sLater), <<>>),
       rawList(JStr(sBlank), <<cardMin>>) >>

\* the longest array payload built from ListPool
MaxLists == 2

ArrayDocs ==
    UNION {{JArr([i \in 1..n |-> ListPool[f[i]]]) : f \in [1..n -> 1..Len(ListPool)]} :
              n \in 1..MaxLists}

SingleDocs ==
    { rawList(JStr(sToDo), <<cardFull>>),
      rawList(JStr(sToDoPadded), <<cardMin>>),
      rawList(JStr(sToDoLower), <<cardMixed, cardFull>>),
      rawList(JStr(sBlank), <<cardFull>>),
      rawList(JStr(<<>>), <<cardMin>>),
      rawList(JNum(3), <<cardMin>>),
      JObj([cards |-> JArr(<<cardMin>>)]),
      JObj([listName |-> JStr(sToDo)]),
      JObj([listName |-> JStr(sToDo), cards |-> JNum(1)]),
      rawList(JStr(sToDo), <<JNull>>),
      rawList(JStr(sToDo), <<cardMin, JNum(7)>>),
      rawList(JStr(sToDo), <<cardNoTitle>>),
      rawList(JStr(sToDo), <<cardBadLabel>>),
      rawList(JStr(sToDo), <<cardBadCompleted>>),
      rawList(JStr(sToDo), <<cardManyLabels>>),
      rawList(JStr(sToDo), <<cardLongLabel>>),
      rawList(JStr(Rep("n", MaxListNameLen + 1)), <<cardMin>>) }

LengthDocs ==
    { rawList(JStr(sToDo), <<cardOfLengths(MaxTitleLen, 1,
                                            MaxChecklistNameLen, MaxItemTitleLen)>>),
      rawList(JStr(sToDo), <<cardOfLengths(1, MaxDescriptionLen, 1, 1)>>),
      rawList(JStr(sToDo), <<cardOfLengths(MaxTitleLen + 1, 1, 1, 1)>>),
      rawList(JStr(sToDo), <<cardOfLengths(1, MaxDescriptionLen + 1, 1, 1)>>),
      rawList(JStr(sToDo), <<cardOfLengths(1, 1, MaxChecklistNameLen + 1, 1)>>),
      rawList(JStr(sToDo), <<cardOfLengths(1, 1, 1, MaxItemTitleLen + 1)>>) }

OtherDocs ==
    { JNull, JNum(1), JStr(sToDo), JArr(<<>>),
      JArr(<<JNull>>),
      JArr(<<rawList(JStr(sToDo), <<cardMin>>), JNum(4)>>),
      JArr(<<JObj([cards |-> JArr(<<cardMin>>)])>>),
      rawList(JStr(sToDo), <<cardDone>>),
      rawList(JStr(sToDo), <<cardEmptyNames>>),
      rawList(JStr(sToDo), <<cardBlankLabel>>),
      JArr(Rep(rawList(JStr(sLater), <<>>), MaxListsPerImport)),
      JArr(Rep(rawList(JStr(sLater), <<>>), MaxListsPerImport + 1)) }

\* input.data: a text JSON.parse rejects, or a text with its parsed value
Inputs ==
    {[ok |-> FALSE]}
    \cup {[ok |-> TRUE, value |-> d] :
             d \in ArrayDocs \cup SingleDocs \cup LengthDocs \cup OtherDocs}

EmptyStore ==
    [imports |-> <<>>, lists |-> <<>>, labels |-> <<>>, cards |-> <<>>,
     activities |-> <<>>, cardLabels |-> <<>>, checklists |-> <<>>, items |-> <<>>]

\* a board that was used before: lists and a label whose names differ in
\* case from the payloads', deleted rows, and rows of another board
UsedStore ==
    [imports |-> <<[status |-> "success", source |-> "json"]>>,
     lists |-> <<[name |-> sToDoLower, boardId |-> TargetBoard, importId |-> 0,
                  deleted |-> FALSE],
                 [name |-> sDone, boardId |-> TargetBoard, importId |-> 0,
                  deleted |-> TRUE],
                 [name |-> sDone, boardId |-> OtherBoard, importId |-> 0,
                  deleted |-> FALSE],
                 [name |-> toLowerCase(sLater), boardId |-> TargetBoard, importId |-> 0,
                  deleted |-> FALSE]>>,
     labels |-> <<[name |-> sBugUpper, colourCode |-> 0, boardId |-> TargetBoard,
                   importId |-> 0, deleted |-> FALSE],
                  [name |-> sFeat, colourCode |-> 1, boardId |-> OtherBoard,
                   importId |-> 0, deleted |-> FALSE],
                  [name |-> <<"o", "l", "d">>, colourCode |-> 2, boardId |-> TargetBoard,
                   importId |-> 0, deleted |-> TRUE],
                  [name |-> <<"u", "x">>, colourCode |-> 1, boardId |-> TargetBoard,
                   importId |-> 0, deleted |-> FALSE],
                  [name |-> <<"q", "a">>, colourCode |-> 2, boardId |-> TargetBoard,
                   importId |-> 0, deleted |-> FALSE],
                  [name |-> <<"d", "b">>, colourCode |-> 0, boardId |-> TargetBoard,
                   importId |-> 0, deleted |-> FALSE]>>,
     cards |-> <<[title |-> <<"o">>, description |-> <<>>, listId |-> 1, index |-> 0,
                  importId |-> 0, deleted |-> FALSE],
                 [title |-> <<"g">>, description |-> <<>>, listId |-> 1, index |-> 1,
                  importId |-> 0, deleted |-> TRUE],
                 [title |-> <<"h">>, description |-> <<>>, listId |-> 3, index |-> 0,
                  importId |-> 0, deleted |-> FALSE]>>,
     activities |-> <<[type |-> "card.created", cardId |-> 1]>>,
     cardLabels |-> <<[cardId |-> 1, labelId |-> 1], [cardId |-> 3, labelId |-> 2]>>,
     checklists |-> <<[name |-> <<"k">>, cardId |-> 1, deleted |-> FALSE],
                      [name |-> <<"q">>, cardId |-> 1, deleted |-> TRUE],
                      [name |-> <<"r">>, cardId |-> 3, deleted |-> FALSE]>>,
     items |-> <<[title |-> <<"e">>, checklistId |-> 1, completed |-> TRUE,
                  deleted |-> FALSE],
                 [title |-> <<"f">>, checklistId |-> 1, completed |-> FALSE,
                  deleted |-> TRUE],
                 [title |-> <<"s">>, checklistId |-> 3, completed |-> FALSE,
                  deleted |-> FALSE]>>]

InitStores == {EmptyStore, UsedStore}

InitStore(s) ==
    /\ imports = s.imports
    /\ lists = s.lists
    /\ labels = s.labels
    /\ cards = s.cards
    /\ activities = s.activities
    /\ cardLabels = s.cardLabels
    /\ checklists = s.checklists
    /\ items = s.items

(***************************************************************************)
(* Specification: an import call, then an export call, on one board.       *)
(***************************************************************************)
Init ==
    /\ \E s \in InitStores : InitStore(s)
    /\ \E d \in Inputs :
          call = [p \in Procs |-> IF p = 1 THEN NewCall("import", d)
                                  ELSE NewCall("export", [ok |-> FALSE])]

\* the steps of importCards
ImportStep(p, overlap) ==
    \/ Authenticate(p, overlap)
    \/ ParseJson(p)
    \/ PreprocessStep(p)
    \/ Validate(p)
    \/ FindBoard(p)
    \/ GetWorkspace(p)
    \/ AssertUserInWorkspace(p)
    \/ CreateImport(p)
    \/ ReadExistingLists(p)
    \/ ReadExistingLabels(p)
    \/ CreateLabels(p)
    \/ ListLoop(p)
    \/ CreateList(p)
    \/ CreateCards(p)
    \/ CreateActivities(p)
    \/ CreateCardLabels(p)
    \/ CreateChecklist(p)
    \/ CreateItem(p)
    \/ MarkSuccess(p)
    \/ MarkFailed(p)

\* the queries of exportCards
ExportStep(p) ==
    \/ ExportLists(p)
    \/ ExportCards(p)
    \/ ExportCardLabels(p)
    \/ ExportChecklists(p)
    \/ ExportItems(p)

Step(p, overlap) == ImportStep(p, overlap) \/ ExportStep(p)

Next == \E p \in Procs : Step(p, FALSE)

Spec == Init /\ [][Next]_vars

(***************************************************************************)
(* Two import calls on one board, one after the other (SpecSeq) or         *)
(* overlapping (SpecRace).  SpecRace follows the calls while access is     *)
(* granted and every store operation returns its result.                   *)
(***************************************************************************)
cardLabelled == JObj([title |-> Title("l"), labels |-> JArr(<<JStr(sFeat)>>)])

PairDocs ==
    { rawList(JStr(sToDo), <<cardFull>>),
      JArr(<<rawList(JStr(sToDoLower), <<cardMin>>),
             rawList(JStr(sToDo), <<cardLabelled>>)>>),
      JArr(<<rawList(JStr(sDonePadded), <<cardLabelled>>),
             rawList(JStr(sLater), <<>>)>>),
      rawList(JStr(sBlank), <<cardMin>>) }

InitPair ==
    /\ \E s \in InitStores : InitStore(s)
    /\ \E d \in [Procs -> PairDocs] :
          call = [p \in Procs |-> NewCall("import", [ok |-> TRUE, value |-> d[p]])]

NextSeq == \E p \in Procs : ImportStep(p, FALSE)

SpecSeq == InitPair /\ [][NextSeq]_vars

\* call p was granted access and each of its store operations returned its result
Calm(p) ==
    /\ \A f \in 1..Len(call[p].faults) : call[p].faults[f].kind = "throw"
    /\ call[p].result.kind = "error" => call[p].result.stage = "catch"

\* a step of one of two overlapping import calls
RaceStep(p) ==
    \/ Authenticate(p, TRUE) /\ Calm(p)'
    \/ ParseJson(p) /\ Calm(p)'
    \/ PreprocessStep(p) /\ Calm(p)'
    \/ Validate(p) /\ Calm(p)'
    \/ FindBoard(p) /\ Calm(p)'
    \/ GetWorkspace(p) /\ Calm(p)'
    \/ AssertUserInWorkspace(p) /\ Calm(p)'
    \/ CreateImport(p) /\ Calm(p)'
    \/ ReadExistingLists(p) /\ Calm(p)'
    \/ ReadExistingLabels(p) /\ Calm(p)'
    \/ CreateLabels(p) /\ Calm(p)'
    \/ ListLoop(p) /\ Calm(p)'
    \/ CreateList(p) /\ Calm(p)'
    \/ CreateCards(p) /\ Calm(p)'
    \/ CreateActivities(p) /\ Calm(p)'
    \/ CreateCardLabels(p) /\ Calm(p)'
    \/ CreateChecklist(p) /\ Calm(p)'
    \/ CreateItem(p) /\ Calm(p)'
    \/ MarkSuccess(p) /\ Calm(p)'
    \/ MarkFailed(p) /\ Calm(p)'

\* the payloads of PairDocs that name the list "To Do" or no list
RaceDocs ==
    { d \in PairDocs : d.t = "object" \/ d.v[1].v.listName = JStr(sToDoLower) }

InitRace ==
    /\ InitStore(EmptyStore)
    /\ \E d \in [Procs -> RaceDocs] :
          call = [p \in Procs |-> NewCall("import", [ok |-> TRUE, value |-> d[p]])]

NextRace == \E p \in Procs : RaceStep(p)

SpecRace == InitRace /\ [][NextRace]_vars

(***************************************************************************)
(* One list document D imported as the single-list document D, and then as *)
(* the one-element array [D], into the same board.                         *)
(***************************************************************************)
FormDocs ==
    { rawList(JStr(sToDo), <<cardFull>>),
      rawList(JStr(sDonePadded), <<cardMin>>),
      JObj([listName |-> JStr(sLater)]),
      JObj([listName |-> JStr(sLater), cards |-> JNum(3)]) }

InitForms ==
    /\ InitStore(EmptyStore)
    /\ \E d \in FormDocs :
          call = [p \in Procs |->
                     NewCall("import",
                             [ok |-> TRUE, value |-> IF p = 1 THEN d ELSE JArr(<<d>>)])]

SpecForms == InitForms /\ [][NextSeq]_vars

(***************************************************************************)
(* An export call that overlaps an import call on the same board.          *)
(***************************************************************************)
InitOverlap ==
    /\ \E s \in InitStores : InitStore(s)
    /\ \E d \in PairDocs :
          call = [p \in Procs |->
                     IF p = 1 THEN NewCall("import", [ok |-> TRUE, value |-> d])
                     ELSE NewCall("export", [ok |-> FALSE])]

NextOverlap == \E p \in Procs : Step(p, TRUE)

SpecOverlap == InitOverlap /\ [][NextOverlap]_vars

(***************************************************************************)
(* Properties.                                                             *)
(***************************************************************************)
AllChecks == {"auth", "board", "workspace", "member"}

ImportDone(p) == call[p].op = "import" /\ call[p].pc = "done"

Failed(p) == call[p].result.kind = "error"

Succeeded(p) == call[p].result.kind = "ok"

\* the caller was turned away by an access check
Denied(p) ==
    Failed(p) /\ call[p].result.stage \in {"start", "findBoard", "getWorkspace", "assertMember"}

\* no store operation of the call raised or came back without a result
NoStoreFault(p) ==
    \A i \in 1..Len(call[p].faults) : call[p].faults[i].kind = "throw"

\* the store when call p began, by table
snapImports(p) == call[p].snap[1]
snapLists(p) == call[p].snap[2]
snapLabels(p) == call[p].snap[3]
snapCards(p) == call[p].snap[4]

\* the status of the ImportBatch of call p
status(p) == imports[call[p].newImportId].status

\* the status update of the catch block raised
FailedUpdateRaised(p) ==
    /\ call[p].faults # <<>>
    /\ call[p].faults[Len(call[p].faults)].at = "catch"

\* the entries of the payload as parsed, before preprocessing
RawLists(v) == IF IsArray(v) THEN v.v ELSE <<v>>

\* payloads the preprocessor or the validator must reject
NamedReject(v) ==
    \/ IsArray(v) /\ (Len(v.v) = 0 \/ Len(v.v) > MaxListsPerImport)
    \/ IsArray(v) /\ \E i \in 1..Len(v.v) :
          v.v[i].t # "object" \/ ~HasKey(v.v[i], "listName")
    \/ \E i \in 1..Len(RawLists(v)) :
          \E n \in 1..Len(ListCardsOrEmpty(RawLists(v)[i])) :
              ListCardsOrEmpty(RawLists(v)[i])[n].t \notin {"object", "array"}

\* C1: an import whose payload is rejected by JSON.parse, the preprocessor or
\* the schema ends with BAD_REQUEST and has written nothing; unparsable texts,
\* empty and over-long arrays of lists, non-object lists and cards and lists
\* without a name never get past validation.
C1_RejectedBeforeAnyWrite ==
    \A p \in Procs :
        /\ (ImportDone(p) /\ Failed(p)
              /\ call[p].result.stage \in {"parse", "preprocess", "validate"})
           => (call[p].result.code = "BAD_REQUEST" /\ store = call[p].snap
                 /\ call[p].newImportId = 0)
        /\ (call[p].op = "import"
              /\ call[p].pc \notin {"start", "parse", "preprocess", "validate", "done"})
           => (call[p].data.ok /\ ~NamedReject(call[p].data.value))
        /\ (ImportDone(p) /\ "auth" \in call[p].checks
              /\ (~call[p].data.ok \/ NamedReject(call[p].data.value)))
           => (Failed(p) /\ call[p].result.stage \in {"parse", "preprocess", "validate"})

C1_Witness ==
    /\ ImportDone(1) /\ Failed(1)
    /\ call[1].result.stage = "validate"
    /\ IsArray(call[1].data.value)
    /\ Len(call[1].data.value.v) > MaxListsPerImport
    /\ Len(cards) > 0

\* a list entry whose name is missing, empty or whitespace only
NameMissingOrBlank(e) ==
    e.t = "object"
    /\ (~IsString(Get(e, "listName")) \/ trim(Get(e, "listName").v) = <<>>)

HasBlankListName(v) ==
    IF IsArray(v) THEN \E i \in 1..Len(v.v) : NameMissingOrBlank(v.v[i])
    ELSE HasKey(v, "cards") /\ NameMissingOrBlank(v)

\* C2: a payload with a list whose name is missing or blank, single list or
\* array, is rejected as a validation failure (BAD_REQUEST) with no
\* ImportBatch and no label created.
C2_BlankListNameRejectedBeforeWrites ==
    \A p \in Procs :
        (ImportDone(p) /\ ~Denied(p) /\ NoStoreFault(p) /\ call[p].data.ok
           /\ HasBlankListName(call[p].data.value))
        => /\ Failed(p)
           /\ call[p].result.code = "BAD_REQUEST"
           /\ call[p].newImportId = 0
           /\ imports = snapImports(p)
           /\ labels = snapLabels(p)

\* C3 as claimed: an import that created its ImportBatch and ends with an
\* error leaves the batch 'failed'.
C3_FailedStatusOnAnyError ==
    \A p \in Procs :
        (ImportDone(p) /\ Failed(p) /\ call[p].newImportId # 0)
        => status(p) = "failed"

\* C3: an import that created its ImportBatch and ends with an error never
\* leaves the batch 'success'; the batch is 'failed', unless the status update
\* of the catch block itself raised, and then it is still 'pending'.
C3_FailedStatusUnlessUpdateRaises ==
    \A p \in Procs :
        (ImportDone(p) /\ Failed(p) /\ call[p].newImportId # 0)
        => IF FailedUpdateRaised(p) THEN status(p) = "pending"
           ELSE status(p) = "failed"

C3_Witness ==
    /\ ImportDone(1) /\ Failed(1) /\ call[1].newImportId # 0
    /\ ~FailedUpdateRaised(1)
    /\ status(1) = "failed"
    /\ Len(cards) > Len(snapCards(1))

\* C4 as claimed: the status of the ImportBatch of a call is written exactly
\* once, from 'pending' to 'success' or 'failed'.
C4_StatusWrittenExactlyOnce ==
    \A p \in Procs :
        (ImportDone(p) /\ call[p].newImportId # 0)
        => (call[p].statusWrites = 1 /\ status(p) \in {"success", "failed"})

\* C4: the ImportBatch of a call always exists once created; its status is
\* written at most once, from 'pending' to 'success' or 'failed', and only as
\* the call ends; it is written exactly once unless the status update of the
\* catch block raised, and then it is never written.
C4_StatusWrittenAtMostOnce ==
    \A p \in Procs :
        (call[p].op = "import" /\ call[p].newImportId # 0)
        => /\ call[p].newImportId \in 1..Len(imports)
           /\ call[p].statusWrites \in {0, 1}
           /\ call[p].statusWrites = 0 => status(p) = "pending"
           /\ call[p].statusWrites = 1
                => (status(p) \in {"success", "failed"} /\ call[p].pc = "done")
           /\ call[p].pc = "done"
                => (call[p].statusWrites = 0 <=> FailedUpdateRaised(p))

C4_Witness ==
    /\ ImportDone(1) /\ call[1].raised
    /\ call[1].statusWrites = 1
    /\ status(1) = "failed"

\* the store when call p began, the tables written inside the list loop
snapActivities(p) == call[p].snap[5]
snapCardLabels(p) == call[p].snap[6]
snapChecklists(p) == call[p].snap[7]
snapItems(p) == call[p].snap[8]

\* the id of the card created for card ci of payload list li of call p: the
\* cards of a call are inserted in payload order after the cards of the store
CardIdOf(p, li, ci) ==
    Len(snapCards(p))
    + Len(Concat([x \in 1..(li - 1) |-> call[p].lists[x].cards])) + ci

\* a creation of call p at this position of the payload returned no result
SkippedAt(p, at, li, ci, j, k) ==
    \E f \in 1..Len(call[p].faults) :
        call[p].faults[f] =
            [kind |-> "null", at |-> at, li |-> li, ci |-> ci, j |-> j, k |-> k]

\* a store operation of call p raised at `at` while payload list li was processed
RaisedAt(p, at, li) ==
    \E f \in 1..Len(call[p].faults) :
        /\ call[p].faults[f].kind = "raise"
        /\ call[p].faults[f].at = at
        /\ call[p].faults[f].li = li

\* the checklist rows of the card of <<li, ci>> with the name of its checklist j
ChecklistRowsOf(p, li, ci, j) ==
    {h \in 1..Len(checklists) :
        /\ checklists[h].cardId = CardIdOf(p, li, ci)
        /\ checklists[h].name = call[p].lists[li].cards[ci].checklists[j].name
        /\ ~checklists[h].deleted}

\* the store holds card ci of payload list li of call p: the card in a list
\* of the board with the payload's name, its activity, an association for
\* each of its label names the board has a label for, and its checklists
\* and items whose creation returned a result
CardPersisted(p, li, ci) ==
    LET card == call[p].lists[li].cards[ci]
        id == CardIdOf(p, li, ci)
    IN  /\ id \in 1..Len(cards)
        /\ cards[id].title = card.title
        /\ cards[id].description = card.description
        /\ cards[id].index = ci - 1
        /\ cards[id].importId = call[p].newImportId
        /\ ~cards[id].deleted
        /\ cards[id].listId \in 1..Len(lists)
        /\ lists[cards[id].listId].boardId = TargetBoard
        /\ ~lists[cards[id].listId].deleted
        /\ toLowerCase(lists[cards[id].listId].name)
             = toLowerCase(call[p].lists[li].listName)
        /\ \E a \in 1..Len(activities) :
              activities[a] = [type |-> "card.created", cardId |-> id]
        /\ \A n \in 1..Len(card.labels) :
              (\E l \in 1..Len(labels) :
                  /\ labels[l].boardId = TargetBoard
                  /\ toLowerCase(labels[l].name) = toLowerCase(card.labels[n]))
              => \E r \in 1..Len(cardLabels) :
                    /\ cardLabels[r].cardId = id
                    /\ labels[cardLabels[r].labelId].boardId = TargetBoard
                    /\ toLowerCase(labels[cardLabels[r].labelId].name)
                         = toLowerCase(card.labels[n])
        /\ \A j \in 1..Len(card.checklists) :
              ~SkippedAt(p, "createChecklist", li, ci, j, 0)
              => \E h \in ChecklistRowsOf(p, li, ci, j) :
                    \A k \in 1..Len(card.checklists[j].items) :
                        ~SkippedAt(p, "createItem", li, ci, j, k)
                        => \E m \in 1..Len(items) :
                              /\ items[m].checklistId = h
                              /\ items[m].title = card.checklists[j].items[k].title
                              /\ ~items[m].deleted

ListPersisted(p, li) ==
    \A ci \in 1..Len(call[p].lists[li].cards) : CardPersisted(p, li, ci)

\* the payload of call p is two lists with cards
TwoNonEmptyLists(p) ==
    /\ Len(call[p].lists) = 2
    /\ \A i \in 1..2 : Len(call[p].lists[i].cards) > 0

\* C5 as claimed: with two non-empty lists and a checklist creation of the
\* second list that fails (no result, or an exception), the import ends with
\* the first list persisted and the ImportBatch 'failed'.
C5_ChecklistFailureMarksFailed ==
    \A p \in Procs :
        (/\ ImportDone(p)
         /\ TwoNonEmptyLists(p)
         /\ \E ci \in 1..Len(call[p].lists[2].cards) :
               \E j \in 1..Len(call[p].lists[2].cards[ci].checklists) :
                   \/ SkippedAt(p, "createChecklist", 2, ci, j, 0)
                   \/ RaisedAt(p, "createChecklist", 2))
        => (ListPersisted(p, 1) /\ status(p) = "failed")

\* C5: with two non-empty lists and a checklist creation of the second list
\* that raises, the import ends in INTERNAL_SERVER_ERROR with everything
\* written for the first list still in the store (cards, activities, label
\* associations, and the checklists and items whose creation returned a
\* result) and the ImportBatch 'failed', or 'pending' when the status update
\* of the catch block raised too.
C5_ChecklistExceptionKeepsFirstList ==
    \A p \in Procs :
        (ImportDone(p) /\ TwoNonEmptyLists(p) /\ RaisedAt(p, "createChecklist", 2))
        => /\ Failed(p)
           /\ call[p].result.code = "INTERNAL_SERVER_ERROR"
           /\ ListPersisted(p, 1)
           /\ status(p) = IF FailedUpdateRaised(p) THEN "pending" ELSE "failed"

C5_Witness ==
    /\ ImportDone(1) /\ TwoNonEmptyLists(1)
    /\ RaisedAt(1, "createChecklist", 2)
    /\ status(1) = "failed"
    /\ Len(call[1].lists[1].cards[1].checklists) > 0
    /\ Len(checklists) > Len(snapChecklists(1))
    /\ Len(items) > Len(snapItems(1))

\* the positions of the payload of call p
ChecklistPositions(p) ==
    {pos \in UNION {UNION {{<<li, ci, j>> :
                              j \in 1..Len(call[p].lists[li].cards[ci].checklists)} :
                          ci \in 1..Len(call[p].lists[li].cards)} :
                      li \in 1..Len(call[p].lists)} : TRUE}

ItemPositions(p) ==
    UNION {{<<pos[1], pos[2], pos[3], k>> :
               k \in 1..Len(call[p].lists[pos[1]].cards[pos[2]].checklists[pos[3]].items)} :
           pos \in ChecklistPositions(p)}

\* the checklists and the items of the payload whose creation is not skipped
KeptChecklists(p) ==
    {pos \in ChecklistPositions(p) :
        ~SkippedAt(p, "createChecklist", pos[1], pos[2], pos[3], 0)}

KeptItems(p) ==
    {pos \in ItemPositions(p) :
        /\ <<pos[1], pos[2], pos[3]>> \in KeptChecklists(p)
        /\ ~SkippedAt(p, "createItem", pos[1], pos[2], pos[3], pos[4])}

\* the only store outcomes of call p other than a result are checklist and
\* item creations that returned no result, and there is one
OnlySkips(p) ==
    /\ call[p].faults # <<>>
    /\ \A f \in 1..Len(call[p].faults) :
          /\ call[p].faults[f].kind = "null"
          /\ call[p].faults[f].at \in {"createChecklist", "createItem"}

\* C6: an import whose only store failures are checklist or item creations
\* that returned no result ends in success with the ImportBatch 'success';
\* every list and card of the payload is in the store, and so is every
\* checklist and item except the skipped checklists (with their items) and the
\* skipped items.
C6_MissingResultIsSkipped ==
    \A p \in Procs :
        (ImportDone(p) /\ OnlySkips(p))
        => /\ Succeeded(p)
           /\ status(p) = "success"
           /\ \A li \in 1..Len(call[p].lists) : ListPersisted(p, li)
           /\ Len(cards) - Len(snapCards(p))
                = Len(Concat([x \in 1..Len(call[p].lists) |-> call[p].lists[x].cards]))
           /\ Len(checklists) - Len(snapChecklists(p)) = Cardinality(KeptChecklists(p))
           /\ Len(items) - Len(snapItems(p)) = Cardinality(KeptItems(p))

C6_Witness ==
    /\ ImportDone(1) /\ OnlySkips(1) /\ Succeeded(1)
    /\ Len(call[1].lists) = 2
    /\ \E ci \in 1..Len(call[1].lists[1].cards) :
          SkippedAt(1, "createChecklist", 1, ci, 1, 0)
    /\ \E pos \in ItemPositions(1) :
          SkippedAt(1, "createItem", pos[1], pos[2], pos[3], pos[4])
    /\ Len(checklists) > Len(snapChecklists(1))

\* the payload list being processed when the exception of call p was raised:
\* the position of the first store outcome that is not a skipped checklist
\* or item
RaisedLi(p) ==
    LET fs == call[p].faults
        hits == {f \in 1..Len(fs) :
                    ~(fs[f].kind = "null" /\ fs[f].at \in {"createChecklist", "createItem"})}
    IN  fs[CHOOSE f \in hits : \A g \in hits : f <= g].li

\* C7: once an exception is raised inside the try block the call writes no
\* list, label, card, activity, label association, checklist or item any
\* more; the only write that follows is the update of the status of its own
\* ImportBatch to 'failed'; and when the call is over every list of the
\* payload before the one being processed is in the store.
C7_NoWriteAfterException ==
    /\ [][\A p \in Procs :
            call[p].raised
            => /\ entities' = entities
               /\ \/ imports' = imports
                  \/ imports' = [imports EXCEPT ![call[p].newImportId].status = "failed"]
         ]_vars
    /\ [](\A p \in Procs :
            (ImportDone(p) /\ call[p].raised)
            => \A li \in 1..(RaisedLi(p) - 1) : ListPersisted(p, li))

C7_Witness ==
    /\ ImportDone(1) /\ call[1].raised
    /\ RaisedAt(1, "createActivities", 2)
    /\ RaisedLi(1) = 2
    /\ call[1].statusWrites = 1
    /\ Len(call[1].lists[1].cards) > 0
    /\ Len(cards) = Len(snapCards(1)) + Len(call[1].lists[1].cards)
                    + Len(call[1].lists[2].cards)
    /\ Len(activities) = Len(snapActivities(1)) + Len(call[1].lists[1].cards)

\* C8: a call has written to the store, created its ImportBatch or returned
\* export data only if the caller was authenticated, the board and its
\* workspace were found and the membership check passed.
C8_ChecksBeforeWritesAndData ==
    \A p \in Procs :
        (/\ call[p].pc # "start"
         /\ \/ store # call[p].snap
            \/ call[p].newImportId # 0
            \/ call[p].pc \in {"createImport", "exportLists", "exportCards",
                               "exportCardLabels", "exportChecklists", "exportItems"}
            \/ (call[p].op = "export" /\ Succeeded(p)))
        => AllChecks \subseteq call[p].checks

C8_Witness ==
    /\ ImportDone(1) /\ Succeeded(1)
    /\ store # call[1].snap
    /\ call[2].pc = "done" /\ Succeeded(2)
    /\ AllChecks \subseteq call[2].checks
    /\ \E n \in 1..Len(call[2].result.data) : Len(call[2].result.data[n].cards) > 1

\* reads of the payload as parsed
StrLonger(x, n) == IsString(x) /\ Len(x.v) > n

ArrOf(x) == IF IsArray(x) THEN x.v ELSE <<>>

RawCards(v, li) == ListCardsOrEmpty(RawLists(v)[li])

RawChecklists(rc) == ArrOf(Get(rc, "checklists"))

RawItems(cl) == ArrOf(Get(cl, "items"))

\* a string of the card as parsed is longer than its bound
OverLongField(rc) ==
    \/ StrLonger(Get(rc, "title"), CardTitleLimit)
    \/ StrLonger(Get(rc, "description"), CardDescriptionLimit)
    \/ \E j \in 1..Len(RawChecklists(rc)) :
          \/ StrLonger(Get(RawChecklists(rc)[j], "name"), ChecklistNameLimit)
          \/ \E k \in 1..Len(RawItems(RawChecklists(rc)[j])) :
                StrLonger(Get(RawItems(RawChecklists(rc)[j])[k], "title"), ItemTitleLimit)

HasOverLongField(v) ==
    \E li \in 1..Len(RawLists(v)) :
        \E ci \in 1..Len(RawCards(v, li)) : OverLongField(RawCards(v, li)[ci])

\* the warnings of a kind returned by call p for a position of the payload
WarningsAt(p, kind, li, ci, j, k) ==
    {w \in 1..Len(call[p].result.warnings) :
        call[p].result.warnings[w] = [kind |-> kind, li |-> li, ci |-> ci, j |-> j, k |-> k]}

\* C9: an import whose payload has a title, description, checklist name or
\* item title longer than its bound, with access granted and no store
\* failure, succeeds; the stored value is the first `bound` characters of the
\* input and one warning is returned for the field.
C9_OverLongFieldTruncatedWithWarning ==
    \A p \in Procs :
        (ImportDone(p) /\ ~Denied(p) /\ NoStoreFault(p) /\ call[p].data.ok
           /\ HasOverLongField(call[p].data.value))
        => /\ Succeeded(p)
           /\ status(p) = "success"
           /\ \A li \in 1..Len(RawLists(call[p].data.value)) :
                 \A ci \in 1..Len(RawCards(call[p].data.value, li)) :
                    LET rc == RawCards(call[p].data.value, li)[ci]
                        id == CardIdOf(p, li, ci)
                    IN  /\ StrLonger(Get(rc, "title"), CardTitleLimit)
                           => /\ cards[id].title = SubSeq(Get(rc, "title").v, 1, CardTitleLimit)
                              /\ Cardinality(WarningsAt(p, "title", li, ci, 0, 0)) = 1
                        /\ StrLonger(Get(rc, "description"), CardDescriptionLimit)
                           => /\ cards[id].description
                                   = SubSeq(Get(rc, "description").v, 1, CardDescriptionLimit)
                              /\ Cardinality(WarningsAt(p, "description", li, ci, 0, 0)) = 1
                        /\ \A j \in 1..Len(RawChecklists(rc)) :
                              LET cl == RawChecklists(rc)[j]
                              IN  /\ StrLonger(Get(cl, "name"), ChecklistNameLimit)
                                     => /\ \E h \in 1..Len(checklists) :
                                              /\ checklists[h].cardId = id
                                              /\ checklists[h].name
                                                   = SubSeq(Get(cl, "name").v, 1, ChecklistNameLimit)
                                        /\ Cardinality(WarningsAt(p, "checklistName", li, ci, j, 0)) = 1
                                  /\ \A k \in 1..Len(RawItems(cl)) :
                                        StrLonger(Get(RawItems(cl)[k], "title"), ItemTitleLimit)
                                        => /\ \E m \in 1..Len(items) :
                                                 /\ checklists[items[m].checklistId].cardId = id
                                                 /\ items[m].title
                                                      = SubSeq(Get(RawItems(cl)[k], "title").v,
                                                               1, ItemTitleLimit)
                                           /\ Cardinality(WarningsAt(p, "itemTitle", li, ci, j, k)) = 1

\* every card, checklist and item row written by call p holds a title,
\* description or name of the payload as parsed (a description that is
\* missing or null is stored as the empty string), and every card of the
\* payload has its row
StoredAsGiven(p) ==
    LET v == call[p].data.value
    IN  /\ \A li \in 1..Len(RawLists(v)) :
              \A ci \in 1..Len(RawCards(v, li)) :
                 LET rc == RawCards(v, li)[ci]
                     id == CardIdOf(p, li, ci)
                 IN  /\ id \in 1..Len(cards)
                     /\ cards[id].title = Get(rc, "title").v
                     /\ cards[id].description
                          = IF IsString(Get(rc, "description"))
                            THEN Get(rc, "description").v ELSE <<>>
                     /\ \A h \in (Len(snapChecklists(p)) + 1)..Len(checklists) :
                           checklists[h].cardId = id
                           => \E j \in 1..Len(RawChecklists(rc)) :
                                 LET cl == RawChecklists(rc)[j]
                                 IN  /\ IsString(Get(cl, "name"))
                                     /\ checklists[h].name = Get(cl, "name").v
                                     /\ \A m \in (Len(snapItems(p)) + 1)..Len(items) :
                                           items[m].checklistId = h
                                           => \E k \in 1..Len(RawItems(cl)) :
                                                 /\ IsString(Get(RawItems(cl)[k], "title"))
                                                 /\ items[m].title
                                                      = Get(RawItems(cl)[k], "title").v
        /\ Len(cards) - Len(snapCards(p))
             = Len(Concat([li \in 1..Len(RawLists(v)) |-> RawCards(v, li)]))
        /\ \A li \in 1..Len(call[p].lists) : ListPersisted(p, li)

\* C10 as claimed: an import that succeeds stored every title, description
\* and name as given and returns no warning.
C10_StoredAsGivenNoWarnings ==
    \A p \in Procs :
        (ImportDone(p) /\ Succeeded(p))
        => (StoredAsGiven(p) /\ call[p].result.warnings = <<>>)

\* the label entries of the card are more than their distinct
\* case-insensitive non-blank names
HasRepeatedLabels(names) ==
    Len(names) > Cardinality({toLowerCase(names[n]) :
                                 n \in {x \in 1..Len(names) : trim(names[x]) # <<>>}})

\* C10: an import that succeeds stored every title, description and name as
\* given; it returns no truncation warning, and its warnings are exactly one
\* 'Duplicate labels removed' warning for each card with labels whose entries
\* (nulls dropped) are more than their distinct case-insensitive non-blank
\* names.
C10_StoredAsGivenOnlyDuplicateWarnings ==
    \A p \in Procs :
        (ImportDone(p) /\ Succeeded(p))
        => /\ StoredAsGiven(p)
           /\ \A w \in 1..Len(call[p].result.warnings) :
                 /\ call[p].result.warnings[w].kind = "duplicateLabels"
                 /\ call[p].result.warnings[w].li \in 1..Len(call[p].lists)
                 /\ call[p].result.warnings[w].ci
                      \in 1..Len(call[p].lists[call[p].result.warnings[w].li].cards)
           /\ \A li \in 1..Len(call[p].lists) :
                 \A ci \in 1..Len(call[p].lists[li].cards) :
                    Cardinality(WarningsAt(p, "duplicateLabels", li, ci, 0, 0))
                      = IF HasRepeatedLabels(call[p].lists[li].cards[ci].labels)
                        THEN 1 ELSE 0

C10_Witness ==
    /\ ImportDone(1) /\ Succeeded(1)
    /\ Len(call[1].lists) = 2
    /\ Len(call[1].result.warnings) = 1
    /\ Len(checklists) - Len(snapChecklists(1)) >= 3
    /\ Len(items) > Len(snapItems(1))

\* the entries of a labels array, written without surrounding whitespace,
\* that have another entry differing from them only in case
CaseTwins(names) ==
    {n \in 1..Len(names) :
        /\ names[n] # <<>>
        /\ trim(names[n]) = names[n]
        /\ \E m \in 1..Len(names) :
              /\ names[m] # names[n]
              /\ toLowerCase(names[m]) = toLowerCase(names[n])}

\* the associations of a card with labels of the board of this name, ignoring case
AssociationsByName(cardId, name) ==
    {r \in 1..Len(cardLabels) :
        /\ cardLabels[r].cardId = cardId
        /\ labels[cardLabels[r].labelId].boardId = TargetBoard
        /\ toLowerCase(labels[cardLabels[r].labelId].name) = toLowerCase(name)}

LabelNamesDistinct(rows) ==
    \A a, b \in 1..Len(rows) :
        (/\ a # b
         /\ rows[a].boardId = TargetBoard /\ rows[b].boardId = TargetBoard
         /\ ~rows[a].deleted /\ ~rows[b].deleted)
        => toLowerCase(rows[a].name) # toLowerCase(rows[b].name)

\* C12: when an import call is over on a board whose non-deleted label names
\* were pairwise distinct ignoring case when it began, they still are.
C12_LabelNamesStayDistinctIgnoringCase ==
    \A p \in Procs :
        (ImportDone(p) /\ LabelNamesDistinct(snapLabels(p)))
        => LabelNamesDistinct(labels)

\* the non-deleted lists of the target board whose name equals `name` ignoring case
BoardListsNamed(rows, name) ==
    {i \in 1..Len(rows) : /\ rows[i].boardId = TargetBoard
                          /\ ~rows[i].deleted
                          /\ toLowerCase(rows[i].name) = toLowerCase(name)}

ListNamesDistinct(rows) ==
    \A i \in 1..Len(rows) :
        i \in BoardListsNamed(rows, rows[i].name)
        => BoardListsNamed(rows, rows[i].name) = {i}

\* C13: in imports that do not overlap, a list row is created only when no
\* non-deleted list of the board (those created earlier in the same call
\* included) has a name equal ignoring case to the payload list's name;
\* otherwise the cards go into that matching list; so list names that were
\* pairwise distinct ignoring case before a step are so after it.
C13_ListCreatedOnlyWithoutMatch ==
    [][\A p \in Procs :
          LET c == call[p]
          IN  /\ (c.pc = "createList" /\ lists' # lists)
                 => BoardListsNamed(lists, c.lists[c.li].listName) = {}
              /\ (c.pc = "createCards" /\ cards' # cards)
                 => \A i \in (Len(cards) + 1)..Len(cards') :
                       /\ cards'[i].listId
                            \in BoardListsNamed(lists, c.lists[c.li].listName)
                       /\ ListNamesDistinct(lists)
                          => BoardListsNamed(lists, c.lists[c.li].listName)
                               = {cards'[i].listId}
              /\ ListNamesDistinct(lists) => ListNamesDistinct(lists')]_vars

\* the second import has put a card into the list the first import created,
\* and into a list that an earlier entry of its own payload created
C13_Witness ==
    /\ ImportDone(1) /\ Succeeded(1)
    /\ ImportDone(2) /\ Succeeded(2)
    /\ snapLists(1) = <<>>
    /\ Len(lists) = 1
    /\ Len(call[2].lists) = 2
    /\ \E i, j \in 1..Len(cards) :
          /\ cards[i].importId # cards[j].importId
          /\ cards[i].listId = cards[j].listId
    /\ \E i, j \in 1..Len(cards) :
          /\ i # j
          /\ cards[i].importId = 2 /\ cards[j].importId = 2
          /\ cards[i].listId = cards[j].listId

\* the non-deleted labels of the target board, among rows, named `name` ignoring case
BoardLabelsNamed(rows, name) ==
    {i \in 1..Len(rows) : /\ rows[i].boardId = TargetBoard
                          /\ ~rows[i].deleted
                          /\ toLowerCase(rows[i].name) = toLowerCase(name)}

\* the label entries of the payload's cards that name, ignoring case, a label
\* the board had when call p started
KnownLabelRefs(p) ==
    {pos \in UNION {UNION {{<<li, ci, n>> :
                               n \in 1..Len(call[p].lists[li].cards[ci].labels)} :
                           ci \in 1..Len(call[p].lists[li].cards)} :
                    li \in 1..Len(call[p].lists)} :
        LET name == call[p].lists[pos[1]].cards[pos[2]].labels[pos[3]]
        IN  BoardLabelsNamed(snapLabels(p), name) # {}}

LabelOf(p, pos) == call[p].lists[pos[1]].cards[pos[2]].labels[pos[3]]

\* C14: when a card of the payload names a label equal ignoring case to a
\* non-deleted label the board already has, the import creates no label of
\* that name, leaves the existing labels as they were, and (once it has
\* succeeded) has associated the card with the existing label's id.
C14_ExistingLabelReused ==
    \A p \in Procs :
        (call[p].op = "import" /\ call[p].snap # <<>> /\ call[p].lists # <<>>)
        => \A pos \in KnownLabelRefs(p) :
              /\ SubSeq(labels, 1, Len(snapLabels(p))) = snapLabels(p)
              /\ BoardLabelsNamed(labels, LabelOf(p, pos))
                    = BoardLabelsNamed(snapLabels(p), LabelOf(p, pos))
              /\ (ImportDone(p) /\ Succeeded(p))
                 => /\ Cardinality(AssociationsByName(CardIdOf(p, pos[1], pos[2]),
                                                      LabelOf(p, pos))) = 1
                    /\ \A r \in AssociationsByName(CardIdOf(p, pos[1], pos[2]),
                                                   LabelOf(p, pos)) :
                          cardLabels[r].labelId
                             \in BoardLabelsNamed(snapLabels(p), LabelOf(p, pos))

\* a successful import of cards labelled "bug" and "Bug" into the board that
\* has the label "BUG": the label table is as before and the card is
\* associated with that label
C14_Witness ==
    /\ ImportDone(1) /\ Succeeded(1)
    /\ KnownLabelRefs(1) # {}
    /\ labels = snapLabels(1)
    /\ Len(cardLabels) > Len(snapCardLabels(1))
    /\ \E r \in (Len(snapCardLabels(1)) + 1)..Len(cardLabels) :
          labels[cardLabels[r].labelId].name = sBugUpper

\* the entries of call p's payload that have no cards and whose name no
\* entry with cards has, ignoring case
EmptyEntries(p) ==
    {li \in 1..Len(call[p].lists) :
        /\ Len(call[p].lists[li].cards) = 0
        /\ \A x \in 1..Len(call[p].lists) :
              toLowerCase(call[p].lists[x].listName)
                    = toLowerCase(call[p].lists[li].listName)
              => Len(call[p].lists[x].cards) = 0}

\* C15: a payload list entry with zero cards creates no list row and changes
\* no list, whether or not a list of its name exists and wherever the entry
\* stands in the payload: the list table keeps every row it had, no row of
\* the entry's name is added, no card is added to a list of that name, and
\* the step of the list loop that meets the entry moves to the next entry.
C15_EmptyEntryTouchesNoList ==
    /\ [](\A p \in Procs :
            (call[p].op = "import" /\ call[p].snap # <<>>)
            => /\ SubSeq(lists, 1, Len(snapLists(p))) = snapLists(p)
               /\ \A li \in EmptyEntries(p) :
                     LET name == call[p].lists[li].listName
                     IN  /\ BoardListsNamed(lists, name)
                               = BoardListsNamed(snapLists(p), name)
                         /\ \A i \in (Len(snapCards(p)) + 1)..Len(cards) :
                               cards[i].listId \notin BoardListsNamed(lists, name))
    /\ [][\A p \in Procs :
            LET c == call[p]
            IN  (/\ c.pc = "listLoop"
                 /\ c.li \in 1..Len(c.lists)
                 /\ Len(c.lists[c.li].cards) = 0
                 /\ call'[p] # c)
                => /\ UNCHANGED store
                   /\ \/ call'[p].pc = "listLoop" /\ call'[p].li = c.li + 1
                      \/ call'[p].raised /\ trim(c.lists[c.li].listName) = <<>>]_vars

\* a successful import into the board that has the list "later", of a payload
\* whose first entry is "Later" without cards and whose second entry has cards
C15_Witness ==
    /\ ImportDone(1) /\ Succeeded(1)
    /\ Len(call[1].lists) = 2
    /\ EmptyEntries(1) = {1}
    /\ BoardListsNamed(snapLists(1), call[1].lists[1].listName) # {}
    /\ Len(cards) > Len(snapCards(1))

SeqToSet(seq) == {seq[n] : n \in 1..Len(seq)}

\* the exported lists against the imported ones: list names, card titles and
\* descriptions, checklists and items (names, titles, completed flags) in
\* order, and the label names of each card as a set
SameDocument(given, exported) ==
    /\ Len(exported) = Len(given)
    /\ \A n \in 1..Len(given) :
          n \in 1..Len(exported)
          => /\ exported[n].listName = given[n].listName
             /\ Len(exported[n].cards) = Len(given[n].cards)
             /\ \A m \in 1..Len(given[n].cards) :
                   m \in 1..Len(exported[n].cards)
                   => /\ exported[n].cards[m].title = given[n].cards[m].title
                      /\ exported[n].cards[m].description = given[n].cards[m].description
                      /\ SeqToSet(exported[n].cards[m].labels)
                            = SeqToSet(given[n].cards[m].labels)
                      /\ exported[n].cards[m].checklists = given[n].cards[m].checklists

\* C16: a valid document imported into an empty board, with every store
\* operation returning its result, and then exported, comes back with the same
\* list names, cards, label sets, checklists and items.  Stated for documents
\* of one list with one card that has no labels and one checklist, whose
\* checklist name and item titles are not empty.
C16_ExportReturnsImportedDocument ==
    (/\ ImportDone(1) /\ Succeeded(1) /\ NoStoreFault(1)
     /\ call[1].snap = <<<<>>, <<>>, <<>>, <<>>, <<>>, <<>>, <<>>, <<>>>>
     /\ call[2].pc = "done" /\ call[2].result.kind = "ok"
     /\ Len(call[1].lists) = 1
     /\ Len(call[1].lists[1].cards) = 1
     /\ call[1].lists[1].cards[1].labels = <<>>
     /\ Len(call[1].lists[1].cards[1].checklists) = 1
     /\ call[1].lists[1].cards[1].checklists[1].name # <<>>
     /\ \A k \in 1..Len(call[1].lists[1].cards[1].checklists[1].items) :
           call[1].lists[1].cards[1].checklists[1].items[k].title # <<>>)
    => SameDocument(call[1].lists, call[2].result.data)

\* pairs of distinct non-deleted rows of the target board with one name
SameNamePairs(rows) ==
    {pair \in (1..Len(rows)) \X (1..Len(rows)) :
        /\ pair[1] < pair[2]
        /\ rows[pair[1]].boardId = TargetBoard /\ ~rows[pair[1]].deleted
        /\ rows[pair[2]].boardId = TargetBoard /\ ~rows[pair[2]].deleted
        /\ rows[pair[1]].name = rows[pair[2]].name}

\* C17: two import calls on one board that overlap can both read the lists
\* and labels before either writes: each call decides to create a list from
\* the lists it read itself, so two non-deleted lists of one name (ignoring
\* case) or two labels of one name come from two different calls, never from
\* one, and such a state is reached.
C17_DuplicatesComeFromTwoCalls ==
    /\ [](/\ \A i, j \in 1..Len(lists) :
                (i # j /\ j \in BoardListsNamed(lists, lists[i].name)
                       /\ i \in BoardListsNamed(lists, lists[i].name))
                => lists[i].importId # lists[j].importId
          /\ \A pair \in SameNamePairs(labels) :
                labels[pair[1]].importId # labels[pair[2]].importId)
    /\ [][\A p \in Procs :
            (call[p].pc = "createList" /\ call'[p] # call[p] /\ lists' # lists)
            => /\ FindList(call[p].existingLists,
                           call[p].lists[call[p].li].listName) = 0
               /\ lists'[Len(lists')].importId = call[p].newImportId]_vars

\* both calls have succeeded and the board has two lists named "To Do" and
\* two labels named "bug"
C17_Witness ==
    /\ ImportDone(1) /\ Succeeded(1)
    /\ ImportDone(2) /\ Succeeded(2)
    /\ \E pair \in SameNamePairs(lists) : lists[pair[1]].name = sToDo
    /\ \E pair \in SameNamePairs(labels) : labels[pair[1]].name = sBug

\* C18: a response of importCards that carries warnings comes only from a
\* call that went through every list of its payload and set its import
\* record to 'success', the record being updated before the response is
\* produced; a call that fails returns an error without warnings.
C18_WarningsOnlyWithSuccess ==
    \A p \in Procs :
        call[p].op = "import"
        => /\ "warnings" \in DOMAIN call[p].result
              => /\ Succeeded(p)
                 /\ call[p].pc = "done"
                 /\ call[p].warnings = call[p].result.warnings
           /\ Succeeded(p)
              => /\ "warnings" \in DOMAIN call[p].result
                 /\ call[p].li = Len(call[p].lists) + 1
                 /\ ~call[p].raised
                 /\ call[p].statusWrites = 1
                 /\ imports[call[p].newImportId].status = "success"
           /\ Failed(p)
              => /\ DOMAIN call[p].result = {"kind", "code", "stage"}
                 /\ call[p].newImportId # 0
                    => imports[call[p].newImportId].status # "success"

\* an import that had pushed a warning and then failed: its response is an
\* error and its import record is marked failed
C18_Witness ==
    /\ ImportDone(1) /\ Failed(1)
    /\ call[1].warnings # <<>>
    /\ call[1].result.stage = "catch"
    /\ imports[call[1].newImportId].status = "failed"

\* every list, card, checklist and item of an exported document is a
\* non-deleted row of the requested board, of its card and of its checklist
OutputLive(data) ==
    \A n \in 1..Len(data) :
       \E l \in 1..Len(lists) :
          /\ lists[l].boardId = TargetBoard /\ ~lists[l].deleted
          /\ lists[l].name = data[n].listName
          /\ \A m \in 1..Len(data[n].cards) :
                \E cd \in 1..Len(cards) :
                   /\ cards[cd].listId = l /\ ~cards[cd].deleted
                   /\ cards[cd].title = data[n].cards[m].title
                   /\ cards[cd].description = data[n].cards[m].description
                   /\ \A x \in 1..Len(data[n].cards[m].checklists) :
                         \E h \in 1..Len(checklists) :
                            /\ checklists[h].cardId = cd /\ ~checklists[h].deleted
                            /\ checklists[h].name = data[n].cards[m].checklists[x].name
                            /\ \A y \in 1..Len(data[n].cards[m].checklists[x].items) :
                                  \E it \in 1..Len(items) :
                                     /\ items[it].checklistId = h /\ ~items[it].deleted
                                     /\ items[it].title
                                          = data[n].cards[m].checklists[x].items[y].title
                                     /\ items[it].completed
                                          = data[n].cards[m].checklists[x].items[y].completed

\* C19: no step of an export call changes a table, whether the call succeeds
\* or fails and whether or not an import is running; and what the export
\* returns holds only non-deleted lists, cards, checklists and items of the
\* requested board.
C19_ExportReadsOnly ==
    /\ [][\A p \in Procs :
            (call[p].op = "export" /\ call'[p] # call[p]) => UNCHANGED store]_vars
    /\ [](\A p \in Procs :
            (call[p].op = "export" /\ Succeeded(p)) => OutputLive(call[p].result.data))

\* an export of the used board has returned cards and a checklist with an
\* item while the import, which has already inserted cards, is still running
C19_Witness ==
    /\ call[2].pc = "done" /\ Succeeded(2)
    /\ call[1].pc \notin {"start", "done"}
    /\ Len(cards) > Len(snapCards(1))
    /\ \E n \in 1..Len(call[2].result.data) :
          /\ Len(call[2].result.data[n].cards) > 1
          /\ \E m \in 1..Len(call[2].result.data[n].cards) :
                /\ call[2].result.data[n].cards[m].checklists # <<>>
                /\ call[2].result.data[n].cards[m].checklists[1].items # <<>>
    /\ \E i \in 1..Len(snapCards(1)) : snapCards(1)[i].deleted

\* the payload lists of call p that have cards, i.e. those resolved and written to
ListsWrittenTo(p) ==
    {li \in 1..Len(call[p].lists) : Len(call[p].lists[li].cards) > 0}

\* C20: in a success response, cardsCreated is the number of cards the call
\* inserted, which is the number of cards of the payload's lists, and
\* listsProcessed is the number of payload lists that were resolved and
\* written to, lists without cards not counted.
C20_CountsMatchWhatWasWritten ==
    \A p \in Procs :
        (ImportDone(p) /\ Succeeded(p))
        => /\ call[p].result.cardsCreated = Len(cards) - Len(snapCards(p))
           /\ call[p].result.cardsCreated
                 = Len(Concat([li \in 1..Len(call[p].lists) |-> call[p].lists[li].cards]))
           /\ call[p].result.listsProcessed = Cardinality(ListsWrittenTo(p))

\* the cardsCreated part alone
C20_CardsCreatedMatches ==
    \A p \in Procs :
        (ImportDone(p) /\ Succeeded(p))
        => /\ call[p].result.cardsCreated = Len(cards) - Len(snapCards(p))
           /\ call[p].result.cardsCreated
                 = Len(Concat([li \in 1..Len(call[p].lists) |-> call[p].lists[li].cards]))

\* C21: an import call creates labels at most once, in one batch, before it
\* writes a list or a card, so no label is created after that batch; and each
\* card-label association it writes refers to a label of the label table and
\* to a card this call created.
C21_LabelsOnceBeforeLists ==
    [][\A p \in Procs :
          (call[p].op = "import" /\ call'[p] # call[p])
          => /\ labels' # labels
                => /\ call[p].pc = "createLabels"
                   /\ labels = snapLabels(p)
                   /\ lists = snapLists(p)
                   /\ cards = snapCards(p)
                   /\ cardLabels = snapCardLabels(p)
                   /\ Len(labels') = Len(labels) + Len(call[p].toCreate)
             /\ \A r \in (Len(cardLabels) + 1)..Len(cardLabels') :
                   /\ cardLabels'[r].labelId \in 1..Len(labels)
                   /\ labels' = labels
                   /\ ~labels[cardLabels'[r].labelId].deleted
                   /\ cardLabels'[r].cardId \in (Len(snapCards(p)) + 1)..Len(cards)
                   /\ cards[cardLabels'[r].cardId].importId = call[p].newImportId]_vars

\* a successful import into the used board that created a label, then a
\* list and cards, then associations with the created and an existing label
C21_Witness ==
    /\ ImportDone(1) /\ Succeeded(1)
    /\ snapLabels(1) # <<>>
    /\ Len(labels) > Len(snapLabels(1))
    /\ Len(lists) > Len(snapLists(1))
    /\ \E r, q \in (Len(snapCardLabels(1)) + 1)..Len(cardLabels) :
          /\ cardLabels[r].labelId > Len(snapLabels(1))
          /\ cardLabels[q].labelId <= Len(snapLabels(1))

\* the number of non-deleted labels of the target board among rows
BoardLabelCount(rows) ==
    Cardinality({i \in 1..Len(rows) : rows[i].boardId = TargetBoard /\ ~rows[i].deleted})

\* C22: the k-th label an import call creates (k from 0, in creation order)
\* has the palette colour of index (E + k) mod P, E being the number of
\* non-deleted labels the board had when the call read them and P the
\* palette size; the index is within 0..P-1.
C22_ColourCyclesFromExistingCount ==
    \A p \in Procs :
        (call[p].op = "import" /\ call[p].snap # <<>>)
        => \A k \in 0..(Len(labels) - Len(snapLabels(p)) - 1) :
              LET row == labels[Len(snapLabels(p)) + k + 1]
              IN  /\ row.colourCode = (BoardLabelCount(snapLabels(p)) + k) % PaletteSize
                  /\ row.colourCode \in 0..(PaletteSize - 1)
                  /\ row.importId = call[p].newImportId

\* on the board with more non-deleted labels than the palette has colours,
\* the created label "feat" takes a colour counted round the palette
C22_Witness ==
    /\ ImportDone(1) /\ Succeeded(1)
    /\ BoardLabelCount(snapLabels(1)) > PaletteSize
    /\ Len(snapLabels(1)) > BoardLabelCount(snapLabels(1))
    /\ Len(labels) > Len(snapLabels(1))
    /\ labels[Len(snapLabels(1)) + 1].colourCode
          = BoardLabelCount(snapLabels(1)) - PaletteSize

\* C23: every card an import call has created has as index its zero-based
\* position in the cards array of its payload list entry, whatever cards the
\* target list already had, and carries the id of the call's import record.
C23_CardIndexIsPayloadPosition ==
    \A p \in Procs :
        (call[p].op = "import" /\ call[p].snap # <<>>)
        => /\ \A li \in 1..Len(call[p].lists) :
                 \A ci \in 1..Len(call[p].lists[li].cards) :
                    CardIdOf(p, li, ci) <= Len(cards)
                    => /\ cards[CardIdOf(p, li, ci)].index = ci - 1
                       /\ cards[CardIdOf(p, li, ci)].importId = call[p].newImportId
                       /\ cards[CardIdOf(p, li, ci)].title
                             = TruncateTitle(call[p].lists[li].cards[ci].title)
           /\ Len(cards) - Len(snapCards(p))
                 <= Len(Concat([li \in 1..Len(call[p].lists) |-> call[p].lists[li].cards]))

\* a successful import has put a card of index 0 into a list that already
\* had a non-deleted card of index 0, and a second card of index 1 into a list
C23_Witness ==
    /\ ImportDone(1) /\ Succeeded(1)
    /\ \E old \in 1..Len(snapCards(1)) :
          \E new \in (Len(snapCards(1)) + 1)..Len(cards) :
             /\ ~cards[old].deleted
             /\ cards[old].listId = cards[new].listId
             /\ cards[old].index = cards[new].index
    /\ \E new \in (Len(snapCards(1)) + 1)..Len(cards) : cards[new].index = 1

\* two entries of the labels array are equal ignoring case
TwoEqualIgnoringCase(names) ==
    \E m, n \in 1..Len(names) :
        m # n /\ toLowerCase(names[m]) = toLowerCase(names[n])

\* C24: after a successful import, a card has the 'Duplicate labels removed'
\* warning if and only if two entries of its labels array are equal ignoring
\* case; a card whose entries are pairwise distinct ignoring case, an empty
\* or whitespace-only entry among them, has none.
C24_DuplicateWarningIffEqualEntries ==
    \A p \in Procs :
        (ImportDone(p) /\ Succeeded(p))
        => \A li \in 1..Len(call[p].lists) :
              \A ci \in 1..Len(call[p].lists[li].cards) :
                 (WarningsAt(p, "duplicateLabels", li, ci, 0, 0) # {})
                 <=> TwoEqualIgnoringCase(call[p].lists[li].cards[ci].labels)

\* C25: an import call only adds rows.  Whether it succeeds, fails or is
\* still running, every list, label, card, activity, association, checklist and
\* item the store had when the call started is there unchanged, and so is
\* every import record but the call's own, which is the only row it updates.
C25_ImportOnlyAddsRows ==
    /\ [](\A p \in Procs :
            (call[p].op = "import" /\ call[p].snap # <<>>)
            => /\ SubSeq(imports, 1, Len(snapImports(p))) = snapImports(p)
               /\ SubSeq(lists, 1, Len(snapLists(p))) = snapLists(p)
               /\ SubSeq(labels, 1, Len(snapLabels(p))) = snapLabels(p)
               /\ SubSeq(cards, 1, Len(snapCards(p))) = snapCards(p)
               /\ SubSeq(activities, 1, Len(snapActivities(p))) = snapActivities(p)
               /\ SubSeq(cardLabels, 1, Len(snapCardLabels(p))) = snapCardLabels(p)
               /\ SubSeq(checklists, 1, Len(snapChecklists(p))) = snapChecklists(p)
               /\ SubSeq(items, 1, Len(snapItems(p))) = snapItems(p)
               /\ call[p].newImportId # 0 => call[p].newImportId > Len(snapImports(p)))
    /\ [][\A p \in Procs :
            (call[p].op = "import" /\ call'[p] # call[p])
            => /\ \A t \in 2..8 : SubSeq(store'[t], 1, Len(store[t])) = store[t]
               /\ \A i \in 1..Len(imports) :
                     imports'[i] # imports[i] => i = call[p].newImportId]_vars

\* an import into the used board has inserted a list, cards, a checklist and
\* an item, and then failed
C25_Witness ==
    /\ ImportDone(1) /\ Failed(1)
    /\ snapCards(1) # <<>>
    /\ Len(lists) > Len(snapLists(1))
    /\ Len(cards) > Len(snapCards(1))
    /\ Len(items) > Len(snapItems(1))
    /\ imports[call[1].newImportId].status = "failed"

\* an entry that is an object with a string under `key`
ObjectWithString(x, key) == x.t = "object" /\ IsString(Get(x, key))

\* what preprocessing is said to make of the checklists of a card as parsed
ChecklistsSaidKept(rc) ==
    LET cls == SelectSeq(RawChecklists(rc), LAMBDA cl : ObjectWithString(cl, "name"))
        itemsOf(cl) == SelectSeq(RawItems(cl), LAMBDA it : ObjectWithString(it, "title"))
    IN  [j \in 1..Len(cls) |->
            JObj([name |-> Get(cls[j], "name"),
                  items |-> JArr([k \in 1..Len(itemsOf(cls[j])) |->
                      JObj([title |-> Get(itemsOf(cls[j])[k], "title"),
                            completed |->
                               IF HasKey(itemsOf(cls[j])[k], "completed")
                               THEN Get(itemsOf(cls[j])[k], "completed")
                               ELSE JBool(FALSE)])])])]

\* C26: preprocessing keeps a checklist entry exactly when it is an object
\* with a string name and an item exactly when it is an object with a string
\* title, in their order, and gives an item without completed flag
\* completed = false.
C26_PreprocessKeepsNamedEntries ==
    \A p \in Procs :
        (call[p].op = "import" /\ call[p].pc = "validate" /\ call[p].data.ok)
        => \A li \in 1..Len(RawLists(call[p].data.value)) :
              \A ci \in 1..Len(RawCards(call[p].parsedData, li)) :
                 Get(RawCards(call[p].parsedData, li)[ci], "checklists").v
                    = ChecklistsSaidKept(RawCards(call[p].data.value, li)[ci])

\* call p was not turned away and none of its store operations failed
Undisturbed(p) == NoStoreFault(p) /\ ~Denied(p)

\* C27: a list document D imported as the single-list document and as the
\* array [D], with nothing failing in the store, has the same outcome: both
\* calls fail at validation, or both succeed with the same lists, cards,
\* labels, checklists and warnings (so the second call finds the list of the
\* first and creates none).
C27_SingleAndArrayFormsAgree ==
    (ImportDone(1) /\ ImportDone(2) /\ Undisturbed(1) /\ Undisturbed(2))
    => /\ Failed(1) <=> Failed(2)
       /\ Failed(1) /\ Failed(2) => call[1].result = call[2].result
       /\ Succeeded(1) /\ Succeeded(2)
          => /\ call[1].lists = call[2].lists
             /\ call[1].result = call[2].result
             /\ Len(lists) = Len(snapLists(2))

\* the items of the payload of call p, in the order the call creates them
PayloadItems(p) ==
    Concat([li \in 1..Len(call[p].lists) |->
       Concat([ci \in 1..Len(call[p].lists[li].cards) |->
          Concat([j \in 1..Len(call[p].lists[li].cards[ci].checklists) |->
             call[p].lists[li].cards[ci].checklists[j].items])])])

\* C28: after a successful import in which every creation returned its row,
\* each checklist item the call created has the title and the completed flag
\* of the payload item it was created for.
C28_ItemsKeepCompletedFlag ==
    \A p \in Procs :
        (ImportDone(p) /\ Succeeded(p) /\ NoStoreFault(p))
        => /\ Len(items) - Len(snapItems(p)) = Len(PayloadItems(p))
           /\ \A n \in 1..Len(PayloadItems(p)) :
                 Len(snapItems(p)) + n <= Len(items)
                 => /\ items[Len(snapItems(p)) + n].title
                          = TruncateItemTitle(PayloadItems(p)[n].title)
                    /\ items[Len(snapItems(p)) + n].completed
                          = PayloadItems(p)[n].completed

\* C29: after a successful import in which every creation returned its row,
\* each card is associated, for every entry of its labels array that is not
\* empty after trimming, with a label of the board named like the trimmed
\* entry ignoring case, and every label the call created is associated with
\* a card of the call.
C29_EveryNamedLabelAssociated ==
    \A p \in Procs :
        (ImportDone(p) /\ Succeeded(p) /\ NoStoreFault(p))
        => /\ \A li \in 1..Len(call[p].lists) :
                 \A ci \in 1..Len(call[p].lists[li].cards) :
                    \A n \in 1..Len(call[p].lists[li].cards[ci].labels) :
                       trim(call[p].lists[li].cards[ci].labels[n]) # <<>>
                       => AssociationsByName(CardIdOf(p, li, ci),
                              trim(call[p].lists[li].cards[ci].labels[n])) # {}
           /\ \A l \in (Len(snapLabels(p)) + 1)..Len(labels) :
                 \E r \in (Len(snapCardLabels(p)) + 1)..Len(cardLabels) :
                    /\ cardLabels[r].labelId = l
                    /\ cardLabels[r].cardId > Len(snapCards(p))

\* the first half, for entries written without surrounding whitespace
C29_UnpaddedEntriesAssociated ==
    \A p \in Procs :
        (ImportDone(p) /\ Succeeded(p) /\ NoStoreFault(p))
        => \A li \in 1..Len(call[p].lists) :
              \A ci \in 1..Len(call[p].lists[li].cards) :
                 \A n \in 1..Len(call[p].lists[li].cards[ci].labels) :
                    (/\ trim(call[p].lists[li].cards[ci].labels[n]) # <<>>
                     /\ trim(call[p].lists[li].cards[ci].labels[n])
                           = call[p].lists[li].cards[ci].labels[n])
                    => AssociationsByName(CardIdOf(p, li, ci),
                           call[p].lists[li].cards[ci].labels[n]) # {}

\* C30: the cards one import call has inserted into the same list have
\* pairwise distinct indexes, also when two entries of the payload have names
\* equal ignoring case and resolve to the same list.
C30_IndexesDistinctWithinList ==
    \A p \in Procs :
        (call[p].op = "import" /\ call[p].snap # <<>>)
        => \A a, b \in (Len(snapCards(p)) + 1)..Len(cards) :
              (a # b /\ cards[a].listId = cards[b].listId)
              => cards[a].index # cards[b].index

\* the same for the cards of one payload entry
C30_IndexesDistinctWithinEntry ==
    \A p \in Procs :
        (call[p].op = "import" /\ call[p].snap # <<>>)
        => \A li \in 1..Len(call[p].lists) :
              \A a, b \in 1..Len(call[p].lists[li].cards) :
                 (a # b /\ CardIdOf(p, li, a) <= Len(cards) /\ CardIdOf(p, li, b) <= Len(cards))
                 => cards[CardIdOf(p, li, a)].index # cards[CardIdOf(p, li, b)].index

====
